---- MODULE Spec2Model ----
(***************************************************************************)
(* Breakdown signal engine of rspandey1988/stockmarket: the per-bar replay *)
(* of detect_weinstein_signals (Trading_Script1.py, Trading_Script3.py,    *)
(* buy_sell.py, updated_buy_on_stage2_sell_on_stage3.py) and of             *)
(* detect_signals (momemtum_script.py).                                     *)
(*                                                                         *)
(* Variants:                                                               *)
(*   "S1"  Trading_Script1.py   entry on close > WMA and slope > 0, every  *)
(*         trade logged, portfolio value tracked per bar                   *)
(*   "S3"  Trading_Script3.py   entry also needs close > EMA9, only        *)
(*         profitable trades are appended to trade_details (buy_sell.py    *)
(*         and updated_buy_on_stage2_sell_on_stage3.py replay the same way)*)
(*   "MS"  momemtum_script.py   entry on close above the 200/50/20/9 EMAs, *)
(*         no bar is skipped, no trade list                                *)
(*                                                                         *)
(* The batch (the loop over the ticker list at the end of each script) is   *)
(* modelled for the two scripts that keep module-level state:               *)
(*   "S4"  Trading_Script4.py   Trading_Script3 with the position_status   *)
(*         dict shared by all calls                                        *)
(*   "MI"  momemtum_ipdated.py  momemtum_script with the trade_log list    *)
(*                                                                         *)
(* Further specifications follow the summary after the loop (Rank), a     *)
(* replay with a capital that is not positive (Config), check_breakdown    *)
(* and process_stock of the exit-alert scripts (Breakdown), the scan of    *)
(* the stock list by the exit-alert programs (Monitor),                    *)
(* compute_wma_and_slope (Indicators), the EMA columns (Averages), calls   *)
(* of Trading_Script4 with a position_status that is already filled        *)
(* (Polling), momemtum_ipdated on frames with missing quotes (Journal),    *)
(* the loop on frames with a close of zero (Entry), the buy block in       *)
(* float64 (Entries) and the threads of the live monitor                   *)
(* .github/workflows/updated_buy_on_stage2_sell_on_stage3.py (Threaded).   *)
(*                                                                         *)
(* Money and prices are exact integers in units of a tenth of the second   *)
(* decimal (Quantum units make 0.01); the float rounding error of the      *)
(* Python arithmetic is not modelled in the replay, round(x, 2) is.  A bar *)
(* is read from the downloaded frame one per step; its indicator columns   *)
(* are inputs drawn from small sets that respect how pandas derives them.  *)
(* In Indicators the WMA column is computed, with the rounding of float64, *)
(* and so are the shares and the cash of the buy block in Entries.         *)
(***************************************************************************)
EXTENDS Integers, Sequences, FiniteSets

\* ------------------------------------------------------------------ values

\* float('nan'): a value outside every price and money range of the model
NaN == 0 - 1000000

\* Python None (an unset marker, an unbound name, an absent column)
None == NaN - 1

IsNaN(x) == x = NaN

\* IEEE comparisons: false when either operand is NaN
Lt(a, b) == ~IsNaN(a) /\ ~IsNaN(b) /\ a < b

Gt(a, b) == ~IsNaN(a) /\ ~IsNaN(b) /\ a > b

\* IEEE arithmetic: NaN propagates
Add(a, b) == IF IsNaN(a) \/ IsNaN(b) THEN NaN ELSE a + b

Sub(a, b) == IF IsNaN(a) \/ IsNaN(b) THEN NaN ELSE a - b

Mul(a, b) == IF IsNaN(a) \/ IsNaN(b) THEN NaN ELSE a * b

\* cash // entry_price on non-negative cash and a positive price
FloorDiv(a, b) == a \div b

\* number of model units in 0.01, the resolution of round(x, 2)
Quantum == 10

\* round(x, 2): to the nearest multiple of Quantum, a tie to the even one
Round2(x) ==
    IF IsNaN(x) THEN NaN
    ELSE LET r == x % Quantum
             lo == x - r
         IN  IF 2 * r < Quantum THEN lo
             ELSE IF 2 * r > Quantum THEN lo + Quantum
             ELSE IF (lo \div Quantum) % 2 = 0 THEN lo ELSE lo + Quantum

\* ------------------------------------------------------------------ bounds

\* bars replayed by the loop of one run
MaxBars == 3

\* ------------------------------------------------------------------ inputs

Variants == {"S1", "S3", "MS"}

WmaVariants == {"S1", "S3"}

\* variants that build trade_details
ListVariants == {"S1", "S3"}

Capitals == {4, 20}

Closes == {3, 5, 8}

Lows == {3, 6}

Wmas == {2, 5}

Slopes == {0, 1}

Emas == {2, 5, 9}

\* values of the 200/50/20-day EMAs
LongEmas == {2, 9}

\* rolling(window=30)
WmaWindow == 30

\* first row with a WMA: rolling() yields NaN until the window is full
FirstWma == WmaWindow - 1

\* first row with a slope: diff(1) needs the WMA of the row before
FirstSlope == FirstWma + 1

\* first row with an EMA: ewm(adjust=False).mean() starts at the first close
FirstEma == 0

\* first row at which every indicator the variant consumes is defined
FirstDefined(v) ==
    IF v \in WmaVariants
    THEN (IF FirstSlope > FirstEma THEN FirstSlope ELSE FirstEma)
    ELSE FirstEma

\* first row of the loop: range(30, len(df)), range(200, len(df))
LoopStart(v) == IF v \in WmaVariants THEN 30 ELSE 200

\* mutant: the length test is off by one (len(df) <= 40, len(df) <= 200)
MinLength_Le(v) == IF v \in WmaVariants THEN 41 ELSE 201

\* shortest frame that is replayed: len(df) < 40, len(df) < 200
MinLength(v) == IF v \in WmaVariants THEN 40 ELSE 200

\* len(df): one less than the minimum, or the minimum, which stands for every
\* length from it on (the rows the model replays are the last rows of the
\* loop; the rows of the loop before them change nothing)
Lengths(v) == {MinLength(v) - 1, MinLength(v)}

\* rows of the frame of the WMA scripts (columns Close, Low, WMA, WMA_Slope,
\* EMA9); which of them are NaN is settled by RowFollows
WmaBars ==
    [close : Closes \cup {NaN}, low : Lows \cup {NaN},
     wma : Wmas \cup {NaN}, slope : Slopes \cup {NaN},
     ema9 : Emas \cup {NaN},
     ema200 : {None}, ema50 : {None}, ema20 : {None}]

\* rows of the frame of momemtum_script (Close, Low and the four EMAs); of
\* the three long EMAs at most one is the high value, so that each test of the
\* entry can fail alone
EmaBars ==
    { b \in [close : Closes \cup {NaN}, low : Lows \cup {NaN},
             wma : {None}, slope : {None},
             ema9 : Emas \cup {NaN}, ema200 : LongEmas \cup {NaN},
             ema50 : LongEmas \cup {NaN}, ema20 : LongEmas \cup {NaN}] :
        Cardinality({e \in {"ema200", "ema50", "ema20"} :
                       \E x \in LongEmas : x < b[e]}) <= 1 }

Bars(v) == IF v \in WmaVariants THEN WmaBars ELSE EmaBars

\* What the rows read so far fix about the next one:
\*   old       a NaN close of a row before the replayed ones is still inside
\*             the rolling window (it leaves the window at an unknown row)
\*   taint     rows still to come whose window holds a NaN close that was
\*             replayed
\*   prev_nan  the WMA of the previous row is NaN
\*   seen      some close so far is not NaN (the EMAs are defined from it on)
Frames ==
    [old : BOOLEAN, taint : 0..(WmaWindow - 1), prev_nan : BOOLEAN,
     seen : BOOLEAN]

\* the frame before the first replayed row
FirstFrames(v) ==
    { f \in Frames :
        /\ f.taint = 0
        /\ f.old => f.prev_nan
        /\ ~f.seen => f.old
        /\ v \notin WmaVariants => ~f.old /\ ~f.prev_nan }

\* the frame after row b is read in frame f; keep says whether an old NaN
\* close stays inside the window
NextFrame(v, f, b, keep) ==
    [old |-> f.old /\ keep,
     taint |-> IF v \notin WmaVariants THEN 0
               ELSE IF IsNaN(b.close) THEN WmaWindow - 1
               ELSE IF f.taint > 0 THEN f.taint - 1 ELSE 0,
     prev_nan |-> v \in WmaVariants /\ IsNaN(b.wma),
     seen |-> f.seen \/ ~IsNaN(b.close)]

\* row b can follow frame f: rolling().apply() yields NaN when the window
\* holds a NaN close, diff(1) when either WMA is NaN, and
\* ewm(adjust=False).mean() until the first close that is not NaN
RowFollows(v, f, b, keep) ==
    /\ IsNaN(b.ema9) <=> (~f.seen /\ IsNaN(b.close))
    /\ IF v \in WmaVariants
       THEN /\ IsNaN(b.wma) <=>
                 (IsNaN(b.close) \/ f.taint > 0 \/ (f.old /\ keep))
            /\ IsNaN(b.slope) <=> (IsNaN(b.wma) \/ f.prev_nan)
       ELSE /\ IsNaN(b.ema200) <=> IsNaN(b.ema9)
            /\ IsNaN(b.ema50) <=> IsNaN(b.ema9)
            /\ IsNaN(b.ema20) <=> IsNaN(b.ema9)

\* the row before the first replayed one (never evaluated by the loop)
NoBar ==
    [close |-> None, low |-> None, wma |-> None, slope |-> None,
     ema9 |-> None, ema200 |-> None, ema50 |-> None, ema20 |-> None]

\* ------------------------------------------------------------------- state

VARIABLES
    variant,               \* which script runs
    capital,               \* the capital argument
    length,                \* len(df)
    pc,                    \* "loop" | "done"
    i,                     \* bars replayed so far; the date of a bar is its number
    row,                   \* index in df of the row read last; None before the loop
    bar,                   \* the row read last (df.iloc[-1] once the loop ends)
    frame,                 \* what the rows read so far fix about the next one
    in_position,
    entry_price,
    trades,
    cash,
    shares,
    entry_date,
    trade_details,
    current_trade,
    breakdown_candle_low,
    total_value,           \* Trading_Script1 only; None while unbound
    result,                \* the returned dict; None while running
    cash_before_entry,     \* history: cash when the open position was bought
    realized,              \* history: sum of the profits of the closed positions
    wins,                  \* history: closed positions whose profit was > 0
    eligible,              \* history: some replayed row met the buy condition
    ev,                    \* history: what the last step did
    portfolio_timeline,    \* Trading_Script1 only; the list is only appended
                           \* to: its length and its last entry are kept
    sent,                  \* the kinds of the Telegram messages sent so far
    script,                \* batch: which script runs the ticker list
    harness,               \* batch: "loop" (the for loop of the script) | "pool"
    tickers,               \* batch: the ticker list
    frames,                \* batch: what yf.download returns for each ticker
    position_status,       \* batch: the module-level dict of Trading_Script4
    trade_log,             \* batch: the module-level list of momemtum_ipdated
    results,               \* batch: the results list
    jobs,                  \* batch: the call made for each entry of the list
    df_result,             \* summary: the results sorted by "CAGR (%)"
    top_stock,             \* summary: the ticker of the first row of df_result
    top_stock_details,     \* summary: the dict whose trade list is saved
    df,                    \* alerts, indicators: the frame in hand
    breakdown,             \* alerts: what check_breakdown returned
    record,                \* alerts: the dict of process_stock
    alerts_sent,           \* alerts: the set of monitor_stocks
    cycle,                 \* alerts: calls of monitor_stocks begun
    step,                  \* alerts, indicators: where the program stands
    threads                \* live monitor: the threads started, with their locals

\* the variables of one replay
localvars ==
    <<variant, capital, length, pc, i, row, bar, frame, in_position, entry_price,
      trades, cash, shares, entry_date, trade_details, current_trade,
      breakdown_candle_low, total_value, result, cash_before_entry, realized,
      wins, eligible, ev, portfolio_timeline>>

\* with the messages handed to Telegram
replayvars == <<localvars, sent>>

\* the variables of a batch
batchvars ==
    <<script, harness, tickers, frames, position_status, trade_log, results,
      jobs>>

\* the variables of the summary that follows the loop over the ticker list
rankvars == <<df_result, top_stock, top_stock_details>>

\* the variables of the exit-alert programs and of the indicator columns
alertvars == <<df, breakdown, record, alerts_sent, cycle, step>>

\* the variables of the threaded live monitor (with sent)
threadvars == <<threads>>

vars == <<replayvars, batchvars, rankvars, alertvars, threadvars>>

\* what a single replay leaves alone, what a batch does, what a summary
\* does, and what the alert programs do
notreplay == <<batchvars, rankvars, alertvars, threadvars>>

notbatch == <<replayvars, rankvars, alertvars, threadvars>>

notrank == <<replayvars, batchvars, alertvars, threadvars>>

notalert == <<localvars, batchvars, rankvars, threadvars>>

\* the local variables of one run, as a record
Locals ==
    [in_position |-> in_position, entry_price |-> entry_price,
     trades |-> trades, cash |-> cash, shares |-> shares,
     entry_date |-> entry_date, trade_details |-> trade_details,
     current_trade |-> current_trade,
     breakdown_candle_low |-> breakdown_candle_low,
     cash_before_entry |-> cash_before_entry, realized |-> realized,
     wins |-> wins]

NoTrade ==
    [EntryDate |-> None, EntryPrice |-> None, ExitDate |-> None,
     ExitPrice |-> None, Profit |-> None]

NoEvent ==
    [bought |-> FALSE, marked |-> FALSE, sold |-> FALSE, final |-> FALSE,
     short |-> FALSE, marker |-> None]

\* portfolio_timeline = []
NoTimeline == [Len |-> 0, Last |-> [Date |-> None, Value |-> None]]

\* portfolio_timeline.append(e)
Appended(tl, e) == [Len |-> tl.Len + 1, Last |-> e]

\* --------------------------------------------------------- the bar handler

\* mutant: the NaN guard tests the close alone
Inert_CloseOnly(v, b) == v \in WmaVariants /\ IsNaN(b.close)

\* the NaN guard at the top of the loop body: the bar is skipped by continue
\* (momemtum_script has no such guard)
Inert(v, b) ==
    /\ v \in WmaVariants
    /\ IsNaN(b.close) \/ IsNaN(b.wma) \/ IsNaN(b.slope) \/ IsNaN(b.ema9)

\* mutant: the EMA9 test of the WMA_SLOPE_EMA entry is dropped
BuyCondition_NoEma(v, L, b) ==
    CASE v \in {"S1", "S3"} ->
           ~L.in_position /\ Gt(b.close, b.wma) /\ Gt(b.slope, 0)
      [] v = "MS" ->
           /\ ~L.in_position
           /\ ~IsNaN(b.ema200) /\ ~IsNaN(b.ema50) /\ ~IsNaN(b.ema20)
           /\ ~IsNaN(b.ema9) /\ ~IsNaN(b.close)
           /\ b.close > b.ema200 /\ b.close > b.ema50
           /\ b.close > b.ema20 /\ b.close > b.ema9

\* mutant: the price tests of the entries are not strict
BuyCondition_NotStrict(v, L, b) ==
    LET Ge(x, y) == ~IsNaN(x) /\ ~IsNaN(y) /\ x >= y
    IN  CASE v = "S1" ->
               ~L.in_position /\ Ge(b.close, b.wma) /\ Gt(b.slope, 0)
          [] v = "S3" ->
               /\ ~L.in_position
               /\ Ge(b.close, b.ema9) /\ Ge(b.close, b.wma) /\ Gt(b.slope, 0)
          [] v = "MS" ->
               /\ ~L.in_position
               /\ Ge(b.close, b.ema200) /\ Ge(b.close, b.ema50)
               /\ Ge(b.close, b.ema20) /\ Ge(b.close, b.ema9)

\* the buy condition of each script
BuyCondition(v, L, b) ==
    CASE v = "S1" ->
           ~L.in_position /\ Gt(b.close, b.wma) /\ Gt(b.slope, 0)
      [] v = "S3" ->
           /\ ~L.in_position
           /\ Gt(b.close, b.ema9) /\ Gt(b.close, b.wma) /\ Gt(b.slope, 0)
      [] v = "MS" ->
           /\ ~L.in_position
           /\ ~IsNaN(b.ema200) /\ ~IsNaN(b.ema50) /\ ~IsNaN(b.ema20)
           /\ ~IsNaN(b.ema9) /\ ~IsNaN(b.close)
           /\ b.close > b.ema200 /\ b.close > b.ema50
           /\ b.close > b.ema20 /\ b.close > b.ema9

\* mutant: one share more than the cash can buy is paid for
Debit_Whole(c, sh, price) == c - (sh + 1) * price

\* cash -= shares * entry_price
Debit(c, sh, price) == c - sh * price

\* mutant: the position is opened whatever the number of shares
Buy_NoShareTest(v, L, b, idx) ==
    IF ~BuyCondition(v, L, b) THEN L
    ELSE [L EXCEPT
            !.entry_price = b.close,
            !.shares = FloorDiv(L.cash, b.close),
            !.cash = Debit(L.cash, FloorDiv(L.cash, b.close), b.close),
            !.in_position = TRUE,
            !.entry_date = IF v \in ListVariants THEN idx ELSE @,
            !.breakdown_candle_low = IF v \in ListVariants THEN None ELSE @,
            !.current_trade =
                IF v \in ListVariants
                THEN [EntryDate |-> idx, EntryPrice |-> b.close,
                      ExitDate |-> None, ExitPrice |-> None, Profit |-> None]
                ELSE @,
            !.cash_before_entry = L.cash]

\* the buy block: entry_price and shares are assigned before shares is tested;
\* momemtum_script opens no trade record and does not reset the marker
Buy(v, L, b, idx) ==
    IF ~BuyCondition(v, L, b) THEN L
    ELSE LET sh == FloorDiv(L.cash, b.close)
         IN  IF sh > 0
             THEN [L EXCEPT
                     !.entry_price = b.close,
                     !.shares = sh,
                     !.cash = Debit(L.cash, sh, b.close),
                     !.in_position = TRUE,
                     !.entry_date = IF v \in ListVariants THEN idx ELSE @,
                     !.breakdown_candle_low =
                         IF v \in ListVariants THEN None ELSE @,
                     !.current_trade =
                         IF v \in ListVariants
                         THEN [EntryDate |-> idx, EntryPrice |-> b.close,
                               ExitDate |-> None, ExitPrice |-> None,
                               Profit |-> None]
                         ELSE @,
                     !.cash_before_entry = L.cash]
             ELSE [L EXCEPT !.entry_price = b.close, !.shares = sh]

\* mutant: the marker is overwritten by every later close below the EMA
TrackCondition_Overwrite(v, L, b) ==
    /\ L.in_position
    /\ v = "MS" => ~IsNaN(b.ema9)
    /\ Lt(b.close, b.ema9)

\* whether this bar becomes the breakdown candle
TrackCondition(v, L, b) ==
    /\ L.in_position
    /\ v = "MS" => ~IsNaN(b.ema9)
    /\ Lt(b.close, b.ema9)
    /\ L.breakdown_candle_low = None

\* mutant: the marker takes the close of the breakdown candle, not its low
Track_Close(v, L, b) ==
    IF TrackCondition(v, L, b)
    THEN [L EXCEPT !.breakdown_candle_low = b.close]
    ELSE L

\* the breakdown-candle block
Track(v, L, b) ==
    IF TrackCondition(v, L, b)
    THEN [L EXCEPT !.breakdown_candle_low = b.low]
    ELSE L

\* mutant: the exit fires on close <= marker
SellCondition_Le(v, L, b) ==
    /\ L.in_position
    /\ L.breakdown_candle_low # None
    /\ ~Gt(b.close, L.breakdown_candle_low)
    /\ ~IsNaN(b.close) /\ ~IsNaN(L.breakdown_candle_low)

\* the exit condition
SellCondition(v, L, b) ==
    /\ L.in_position
    /\ L.breakdown_candle_low # None
    /\ Lt(b.close, L.breakdown_candle_low)

\* mutant: one unit is withheld from the proceeds
Credit_Fee(L, price) == Add(Add(L.cash, Mul(L.shares, price)), 0 - 1)

\* cash += shares * exit_price
Credit(L, price) == Add(L.cash, Mul(L.shares, price))

\* mutant: the profit is the proceeds of the sale
Profit_Gross(L, price) == Mul(price, L.shares)

\* profit = (exit_price - entry_price) * shares
Profit(L, price) == Mul(Sub(price, L.entry_price), L.shares)

\* whether a closed trade is appended to trade_details
Logged(v, profit) ==
    \/ v = "S1"
    \/ v = "S3" /\ Gt(profit, 0)

\* current_trade after the exit fields are filled in (only when logged)
ClosedTrade(v, L, price, date) ==
    IF Logged(v, Profit(L, price))
    THEN [L.current_trade EXCEPT
            !.ExitDate = date, !.ExitPrice = price,
            !.Profit = Profit(L, price)]
    ELSE L.current_trade

\* trade_details after a position is closed at price on date
Recorded(v, L, price, date) ==
    IF Logged(v, Profit(L, price))
    THEN Append(L.trade_details, ClosedTrade(v, L, price, date))
    ELSE L.trade_details

\* the sell block
Sell(v, L, b, idx) ==
    IF ~SellCondition(v, L, b) THEN L
    ELSE [L EXCEPT
            !.cash = Credit(L, b.close),
            !.trades = @ + 1,
            !.trade_details = Recorded(v, L, b.close, idx),
            !.current_trade = ClosedTrade(v, L, b.close, idx),
            !.in_position = FALSE,
            !.shares = 0,
            !.breakdown_candle_low = None,
            !.realized = Add(@, Profit(L, b.close)),
            !.wins = IF Gt(Profit(L, b.close), 0) THEN @ + 1 ELSE @]

\* mutant: the sell block stands before the buy block
BarStep_SellFirst(v, L, b, idx) ==
    IF Inert(v, b) THEN L
    ELSE Buy(v, Track(v, Sell(v, L, b, idx), b), b, idx)

\* one pass of the loop body over row b, the idx-th row replayed
BarStep(v, L, b, idx) ==
    IF Inert(v, b) THEN L
    ELSE Sell(v, Track(v, Buy(v, L, b, idx), b), b, idx)

\* mutant: the value of the shares held is left out
PortfolioValue_Cash(L, b) == L.cash

\* total_value = cash + (shares * close) if in_position else cash
PortfolioValue(L, b) ==
    IF L.in_position THEN L.cash + L.shares * b.close ELSE L.cash

\* what the pass did, for the properties
BarEvent(v, L, b, idx) ==
    IF Inert(v, b) THEN NoEvent
    ELSE LET L1 == Buy(v, L, b, idx)
             L2 == Track(v, L1, b)
             L3 == Sell(v, L2, b, idx)
         IN  [bought |-> L1.in_position /\ ~L.in_position,
              marked |-> L2.breakdown_candle_low # L1.breakdown_candle_low,
              sold |-> L3.trades # L2.trades,
              final |-> FALSE,
              short |-> FALSE,
              marker |-> L2.breakdown_candle_low]

\* send_telegram_message during the pass over row b, by the kinds of the
\* messages: the scripts that send are momemtum_script and the copies of
\* Trading_Script3 that carry the Telegram code (buy_sell.py,
\* updated_buy_on_stage2_sell_on_stage3.py); a SELL is sent in the branch
\* profit > 0 alone
Notices(v, L, b, idx) ==
    IF v = "S1" \/ Inert(v, b) THEN <<>>
    ELSE LET L1 == Buy(v, L, b, idx)
             L2 == Track(v, L1, b)
         IN  (IF L1.in_position /\ ~L.in_position THEN <<"BUY">> ELSE <<>>)
             \o (IF SellCondition(v, L2, b) /\ Gt(Profit(L2, b.close), 0)
                 THEN <<"SELL">> ELSE <<>>)

\* send_telegram_message in the block after the loop: momemtum_script sends
\* nothing there
FinalNotices(v, L, b) ==
    IF v = "S3" /\ L.in_position /\ Gt(Profit(L, b.close), 0)
    THEN <<"SELL">> ELSE <<>>

\* ------------------------------------------------ the end of the series

\* mutant: the end of the series counts a trade whether a position is open
\* or not
FinalSell_Always(v, L, b) ==
    [L EXCEPT !.cash = Add(L.cash, Mul(L.shares, b.close)), !.trades = @ + 1]

\* the block after the loop: Trading_Script1/3 sell at df["Close"].iloc[-1]
\* and reset neither in_position nor shares; momemtum_script sells only when
\* that close is not NaN and resets in_position alone
FinalSell(v, L, b) ==
    IF ~L.in_position THEN L
    ELSE IF v \in ListVariants
    THEN [L EXCEPT
            !.cash = Credit(L, b.close),
            !.trades = @ + 1,
            !.trade_details = Recorded(v, L, b.close, i),
            !.current_trade = ClosedTrade(v, L, b.close, i),
            !.realized = Add(@, Profit(L, b.close)),
            !.wins = IF Gt(Profit(L, b.close), 0) THEN @ + 1 ELSE @]
    ELSE IF ~IsNaN(b.close)
    THEN [L EXCEPT
            !.cash = Credit(L, b.close),
            !.trades = @ + 1,
            !.in_position = FALSE,
            !.realized = Add(@, Profit(L, b.close)),
            !.wins = IF Gt(Profit(L, b.close), 0) THEN @ + 1 ELSE @]
    ELSE L

\* mutant: every listed trade counts as successful
Successful_All(v, td) == IF v = "MS" THEN None ELSE Len(td)

\* successful_trades
Successful(v, td) ==
    CASE v = "S1" -> Cardinality({k \in 1..Len(td) : Gt(td[k].Profit, 0)})
      [] v = "S3" -> Len(td)
      [] v = "MS" -> None

\* the dict returned for an empty or too short frame (momemtum_script returns
\* Ticker, Trades and Total Profit alone)
ShortResult(v) ==
    [Trades |-> 0, TotalProfit |-> 0,
     Successful |-> IF v \in ListVariants THEN 0 ELSE None,
     TradeDetails |-> <<>>]

\* whether the row meets the price tests of the buy condition
Eligible(v, b) ==
    ~Inert(v, b) /\ BuyCondition(v, [in_position |-> FALSE], b)

\* the dict of the except branch
ErrorResult ==
    [Trades |-> 0, TotalProfit |-> 0, Successful |-> 0, TradeDetails |-> <<>>]

\* total_profit before rounding: Trading_Script1 takes it from total_value
TotalProfit(v, L, tv) ==
    IF v = "S1" THEN Sub(tv, capital) ELSE Sub(L.cash, capital)

\* the returned dict; in Trading_Script1 total_value is unbound when no bar
\* was evaluated and no position is open, and the NameError is caught; the
\* cagr of the WMA scripts divides by capital, and the ZeroDivisionError is
\* caught as well
Result(v, L, tv) ==
    IF v = "S1" /\ tv = None THEN ErrorResult
    ELSE IF v \in ListVariants /\ capital = 0 THEN ErrorResult
    ELSE [Trades |-> L.trades,
          TotalProfit |-> Round2(TotalProfit(v, L, tv)),
          Successful |-> Successful(v, L.trade_details),
          TradeDetails |-> IF v \in ListVariants THEN L.trade_details ELSE <<>>]

\* ------------------------------------------------------- the batch: values

Scripts == {"S4", "MI"}

Tickers == {"A", "B"}

\* the ticker lists: one ticker listed twice, two tickers
TickerLists == {<<"A", "A">>, <<"A", "B">>}

\* the places of a ticker list
Slots == {1, 2}

\* initial_capital
BatchCapital == 20

\* rows that the loop replays of each frame of a batch
BatchLen == 2

\* close and EMA9 of the rows of a batch: a row that buys, a row that closes
\* higher and below EMA9 (the breakdown candle), a row that closes under the
\* low of the breakdown candle
BatchQuotes == {<<5, 2>>, <<8, 9>>, <<3, 9>>}

\* rows of a frame of Trading_Script4: all columns defined
Script4Bars ==
    { b \in WmaBars :
        /\ <<b.close, b.ema9>> \in BatchQuotes
        /\ b.low = 6 /\ b.wma = 2 /\ b.slope = 1 }

\* rows of a frame of momemtum_ipdated, likewise
IpdatedBars ==
    { b \in EmaBars :
        /\ <<b.close, b.ema9>> \in BatchQuotes
        /\ b.low = 6 /\ b.ema200 = 2 /\ b.ema50 = 2 /\ b.ema20 = 2 }

BatchBars(s) == IF s = "S4" THEN Script4Bars ELSE IpdatedBars

\* yf.download raised, or returned nothing usable
NoFrame == [ok |-> FALSE, rows |-> <<>>]

\* what yf.download can do for one ticker
Downloads(s) ==
    {NoFrame} \cup {[ok |-> TRUE, rows |-> r] : r \in [1..BatchLen -> BatchBars(s)]}

\* the locals at the top of a call; Trading_Script4 takes in_position from
\* position_status, st being its entry for the ticker
FreshLocals(s, st) ==
    [in_position |-> IF s = "S4" THEN st ELSE FALSE,
     entry_price |-> 0, trades |-> 0, cash |-> BatchCapital, shares |-> 0,
     entry_date |-> None, trade_details |-> <<>>, current_trade |-> NoTrade,
     breakdown_candle_low |-> None, cash_before_entry |-> None,
     realized |-> 0, wins |-> 0, status |-> st]

\* a result dict not yet returned
NoResult ==
    [Ticker |-> "", Trades |-> 0, TotalProfit |-> 0, Successful |-> None,
     TradeDetails |-> <<>>]

\* a call not yet made
NoJob == [pc |-> "wait", k |-> 0, L |-> FreshLocals("MI", FALSE), out |-> NoResult]

\* no batch is running
BatchOff ==
    /\ script = "S4"
    /\ harness = "loop"
    /\ tickers = <<>>
    /\ frames = [t \in Tickers |-> NoFrame]
    /\ position_status = [t \in Tickers |-> FALSE]
    /\ trade_log = <<>>
    /\ results = <<>>
    /\ jobs = <<>>

\* no summary has been made
RankOff ==
    /\ df_result = <<>>
    /\ top_stock = ""
    /\ top_stock_details = NoResult

\* the dict of process_stock before anything is found
NoRecord ==
    [ExitTriggered |-> "No", AlertSent |-> "No", CandleDate |-> None,
     CandleLow |-> None, CurrentClose |-> None, Date |-> None]

\* what check_breakdown returns when it finds nothing, with the frame rows
\* as the call leaves it
NoBreakdown(rows) == [found |-> FALSE, at |-> 0, df |-> rows]

\* no alert program is running and no indicator is being computed
AlertOff ==
    /\ df = <<>>
    /\ breakdown = NoBreakdown(<<>>)
    /\ record = NoRecord
    /\ alerts_sent = {}
    /\ cycle = 0
    /\ step = "off"
    /\ threads = <<>>

\* ------------------------------------------------------------ the machine

\* the state at the entry of the loop of a call of one of the scripts vs with
\* one of the capitals caps
Start(vs, caps) ==
    /\ variant \in vs
    /\ capital \in caps
    /\ length \in Lengths(variant)
    /\ pc = "loop"
    /\ i = 0
    /\ row = None
    /\ bar = NoBar
    /\ frame \in FirstFrames(variant)
    /\ in_position = FALSE
    /\ entry_price = 0
    /\ trades = 0
    /\ cash = capital
    /\ shares = 0
    /\ entry_date = None
    /\ trade_details = <<>>
    /\ current_trade = NoTrade
    /\ breakdown_candle_low = None
    /\ total_value = None
    /\ result = None
    /\ cash_before_entry = None
    /\ realized = 0
    /\ wins = 0
    /\ eligible = FALSE
    /\ ev = NoEvent
    /\ portfolio_timeline = NoTimeline
    /\ sent = <<>>
    /\ BatchOff
    /\ RankOff
    /\ AlertOff

Init == Start(Variants, Capitals)

\* the locals are replaced by those of record L
Assign(L) ==
    /\ in_position' = L.in_position
    /\ entry_price' = L.entry_price
    /\ trades' = L.trades
    /\ cash' = L.cash
    /\ shares' = L.shares
    /\ entry_date' = L.entry_date
    /\ trade_details' = L.trade_details
    /\ current_trade' = L.current_trade
    /\ breakdown_candle_low' = L.breakdown_candle_low
    /\ cash_before_entry' = L.cash_before_entry
    /\ realized' = L.realized
    /\ wins' = L.wins

\* len(df) is below the minimum: the degenerate dict is returned at once
TooShort ==
    /\ pc = "loop"
    /\ i = 0
    /\ length < MinLength(variant)
    /\ result' = ShortResult(variant)
    /\ ev' = [NoEvent EXCEPT !.short = TRUE]
    /\ pc' = "done"
    /\ UNCHANGED <<variant, capital, length, i, row, bar, frame, in_position,
                   entry_price, trades, cash, shares, entry_date, trade_details,
                   current_trade, breakdown_candle_low, total_value,
                   cash_before_entry, realized, wins, eligible,
                   portfolio_timeline, sent>>
    /\ UNCHANGED notreplay

\* the index in df of the row that the next iteration reads
NextRow == IF i = 0 THEN LoopStart(variant) ELSE row + 1

\* one iteration of the for loop on the next row of the frame
ProcessBar ==
    /\ pc = "loop"
    /\ length >= MinLength(variant)
    /\ i < MaxBars
    /\ \E b \in Bars(variant), keep \in {k \in BOOLEAN : k => frame.old} :
         LET L == BarStep(variant, Locals, b, i + 1)
         IN  /\ RowFollows(variant, frame, b, keep)
             /\ Assign(L)
             /\ bar' = b
             /\ frame' = NextFrame(variant, frame, b, keep)
             /\ ev' = BarEvent(variant, Locals, b, i + 1)
             /\ total_value' =
                  IF variant = "S1" /\ ~Inert(variant, b)
                  THEN PortfolioValue(L, b)
                  ELSE total_value
             /\ eligible' = (eligible \/ Eligible(variant, b))
             /\ portfolio_timeline' =
                  IF variant = "S1" /\ ~Inert(variant, b)
                  THEN Appended(portfolio_timeline,
                                [Date |-> NextRow,
                                 Value |-> PortfolioValue(L, b)])
                  ELSE portfolio_timeline
             /\ sent' = sent \o Notices(variant, Locals, b, i + 1)
    /\ i' = i + 1
    /\ row' = NextRow
    /\ UNCHANGED <<variant, capital, length, pc, result>>
    /\ UNCHANGED notreplay

\* shortest loop: the WMA scripts need 40 rows and start at row 30, so their
\* loop always runs; momemtum_script starts at row 200 of at least 200 rows
MinBars(v) == IF v \in WmaVariants THEN 1 ELSE 0

\* the series is exhausted: final sell, totals and the returned dict
Finish ==
    /\ pc = "loop"
    /\ length >= MinLength(variant)
    /\ i >= MinBars(variant)
    /\ LET L == FinalSell(variant, Locals, bar)
           tv == IF variant = "S1" /\ in_position THEN L.cash ELSE total_value
       IN  /\ Assign(L)
           /\ total_value' = tv
           /\ result' = Result(variant, L, tv)
           /\ ev' = [NoEvent EXCEPT !.final = L.trades # trades]
           /\ sent' = sent \o FinalNotices(variant, Locals, bar)
    /\ pc' = "done"
    /\ UNCHANGED <<variant, capital, length, i, row, bar, frame, eligible,
                   portfolio_timeline>>
    /\ UNCHANGED notreplay

Next == TooShort \/ ProcessBar \/ Finish

Spec == Init /\ [][Next]_vars

\* capitals that are not positive: nothing in the scripts tests the argument
BadCapitals == {0, 0 - 4}

\* the calls of Trading_Script3 and momemtum_script with such a capital
ConfigInit == Start({"S3", "MS"}, BadCapitals)

Config == ConfigInit /\ [][Next]_vars

\* ------------------------------------------ the entry and a close of zero

\* rows replayed of a frame in which an instrument is quoted at zero
MaxPasses == 2

\* closes of such a frame
ZeroCloses == {0, 3}

\* values of the moving-average columns; the negative one is the average of
\* no frame of non-negative prices
SignedAverages == {0 - 1, 0, 2}

\* rows of such a frame, per script
EntryBars(v) ==
    IF v \in WmaVariants
    THEN [close : ZeroCloses \cup {NaN}, low : ZeroCloses,
          wma : SignedAverages \cup {NaN}, slope : Slopes \cup {NaN},
          ema9 : SignedAverages \cup {NaN},
          ema200 : {None}, ema50 : {None}, ema20 : {None}]
    ELSE [close : ZeroCloses \cup {NaN}, low : ZeroCloses,
          wma : {None}, slope : {None},
          ema9 : SignedAverages \cup {NaN},
          ema200 : SignedAverages \cup {NaN},
          ema50 : SignedAverages \cup {NaN},
          ema20 : SignedAverages \cup {NaN}]

\* the pass over row b reaches shares = cash // entry_price
Divides(v, L, b) == ~Inert(v, b) /\ BuyCondition(v, L, b)

\* one iteration of the for loop on a row of such a frame; the floor division
\* of floats raises ZeroDivisionError on a divisor of zero, after entry_price
\* was assigned
Iterate ==
    /\ pc = "loop"
    /\ length >= MinLength(variant)
    /\ i < MaxPasses
    /\ \E b \in EntryBars(variant), keep \in {k \in BOOLEAN : k => frame.old} :
         /\ RowFollows(variant, frame, b, keep)
         /\ bar' = b
         /\ frame' = NextFrame(variant, frame, b, keep)
         /\ IF Divides(variant, Locals, b) /\ b.close = 0
            THEN /\ pc' = "raised"
                 /\ Assign([Locals EXCEPT !.entry_price = b.close])
                 /\ UNCHANGED <<ev, total_value, eligible, portfolio_timeline,
                                sent>>
            ELSE LET L == BarStep(variant, Locals, b, i + 1)
                 IN  /\ pc' = pc
                     /\ Assign(L)
                     /\ ev' = BarEvent(variant, Locals, b, i + 1)
                     /\ total_value' =
                          IF variant = "S1" /\ ~Inert(variant, b)
                          THEN PortfolioValue(L, b)
                          ELSE total_value
                     /\ eligible' = (eligible \/ Eligible(variant, b))
                     /\ portfolio_timeline' =
                          IF variant = "S1" /\ ~Inert(variant, b)
                          THEN Appended(portfolio_timeline,
                                        [Date |-> NextRow,
                                         Value |-> PortfolioValue(L, b)])
                          ELSE portfolio_timeline
                     /\ sent' = sent \o Notices(variant, Locals, b, i + 1)
    /\ i' = i + 1
    /\ row' = NextRow
    /\ UNCHANGED <<variant, capital, length, result>>
    /\ UNCHANGED notreplay

\* the except branch: the message is printed and the error dict returned
Except ==
    /\ pc = "raised"
    /\ result' = ErrorResult
    /\ pc' = "done"
    /\ UNCHANGED <<variant, capital, length, i, row, bar, frame, in_position,
                   entry_price, trades, cash, shares, entry_date, trade_details,
                   current_trade, breakdown_candle_low, total_value,
                   cash_before_entry, realized, wins, eligible, ev,
                   portfolio_timeline, sent>>
    /\ UNCHANGED notreplay

EntryNext == TooShort \/ Iterate \/ Except \/ Finish

Entry == Init /\ [][EntryNext]_vars

\* ------------------------------------------------- the batch: one call

\* the buy block of Trading_Script4: that of Trading_Script3 inside the test
\* of position_status, which is set with in_position
Buy4(L, b, idx) ==
    IF BuyCondition("S3", L, b) /\ ~L.status
    THEN LET M == Buy("S3", L, b, idx)
         IN  [M EXCEPT !.status = M.in_position]
    ELSE L

\* the sell block of Trading_Script4: position_status is reset with in_position
Sell4(L, b, idx) ==
    IF SellCondition("S3", L, b)
    THEN [Sell("S3", L, b, idx) EXCEPT !.status = FALSE]
    ELSE L

\* one pass of the loop body of Trading_Script4
BarStep4(L, b, idx) ==
    IF Inert("S3", b) THEN L
    ELSE Sell4(Track("S3", Buy4(L, b, idx), b), b, idx)

\* mutant: the final block leaves position_status as it is
FinalSell4_KeepStatus(L, b, idx) ==
    IF ~L.in_position THEN L
    ELSE [L EXCEPT
            !.cash = Credit(L, b.close),
            !.trades = @ + 1,
            !.trade_details = Recorded("S3", L, b.close, idx),
            !.current_trade = ClosedTrade("S3", L, b.close, idx),
            !.in_position = FALSE]

\* the final block of Trading_Script4: the terminal sale, then in_position and
\* position_status are reset
FinalSell4(L, b, idx) ==
    IF ~L.in_position THEN L
    ELSE [L EXCEPT
            !.cash = Credit(L, b.close),
            !.trades = @ + 1,
            !.trade_details = Recorded("S3", L, b.close, idx),
            !.current_trade = ClosedTrade("S3", L, b.close, idx),
            !.in_position = FALSE,
            !.status = FALSE]

\* one pass of the loop body of the script s
Step(s, L, b, idx) ==
    IF s = "S4" THEN BarStep4(L, b, idx) ELSE BarStep("MS", L, b, idx)

\* the block after the loop of the script s
Final(s, L, b, idx) ==
    IF s = "S4" THEN FinalSell4(L, b, idx) ELSE FinalSell("MS", L, b)

\* the dict returned by the script s (the CAGR column is left out)
Record(s, t, L) ==
    [Ticker |-> t,
     Trades |-> L.trades,
     TotalProfit |-> Round2(Sub(L.cash, BatchCapital)),
     Successful |->
         IF s = "S4"
         THEN Cardinality({k \in 1..Len(L.trade_details) :
                             /\ L.trade_details[k].Profit # None
                             /\ L.trade_details[k].Profit # 0
                             /\ Gt(L.trade_details[k].Profit, 0)})
         ELSE None,
     TradeDetails |-> IF s = "S4" THEN L.trade_details ELSE <<>>]

\* the dict of the except branch of the script s
ErrorRecord(s, t) ==
    [Ticker |-> t, Trades |-> 0, TotalProfit |-> 0,
     Successful |-> IF s = "S4" THEN 0 ELSE None, TradeDetails |-> <<>>]

\* log_trade
LogTrade(t, action, price, date, sh) ==
    [Ticker |-> t, Action |-> action, Price |-> price, Date |-> date,
     Shares |-> sh]

\* the entries that one pass of momemtum_ipdated appends to trade_log
RowLog(t, L, b, idx) ==
    LET L1 == Buy("MS", L, b, idx)
        L3 == BarStep("MS", L, b, idx)
    IN  (IF L1.in_position /\ ~L.in_position
         THEN <<LogTrade(t, "BUY", b.close, idx, L1.shares)>> ELSE <<>>)
        \o (IF L3.trades # L.trades
            THEN <<LogTrade(t, "SELL", b.close, idx, L1.shares)>> ELSE <<>>)

\* the entry that the final block of momemtum_ipdated appends
FinalLog(t, L, b, idx) ==
    IF L.in_position /\ ~IsNaN(b.close)
    THEN <<LogTrade(t, "SELL", b.close, idx, L.shares)>> ELSE <<>>

\* ------------------------------------------------ the batch: the machine

\* no single replay is running
ReplayOff ==
    /\ variant = "S3"
    /\ capital = BatchCapital
    /\ length = MinLength("S3")
    /\ pc = "done"
    /\ i = 0
    /\ row = None
    /\ bar = NoBar
    /\ frame = [old |-> FALSE, taint |-> 0, prev_nan |-> FALSE, seen |-> TRUE]
    /\ in_position = FALSE
    /\ entry_price = 0
    /\ trades = 0
    /\ cash = BatchCapital
    /\ shares = 0
    /\ entry_date = None
    /\ trade_details = <<>>
    /\ current_trade = NoTrade
    /\ breakdown_candle_low = None
    /\ total_value = None
    /\ result = None
    /\ cash_before_entry = None
    /\ realized = 0
    /\ wins = 0
    /\ eligible = FALSE
    /\ ev = NoEvent
    /\ portfolio_timeline = NoTimeline
    /\ sent = <<>>

\* the module has been loaded: position_status is False for every ticker,
\* trade_log and results are empty, no call has been made
BatchInit ==
    /\ ReplayOff
    /\ RankOff
    /\ AlertOff
    /\ script \in Scripts
    /\ harness \in {"loop", "pool"}
    /\ tickers \in TickerLists
    /\ frames \in [Tickers -> Downloads(script)]
    /\ \A t \in Tickers :
         (\A n \in 1..Len(tickers) : tickers[n] # t) => frames[t] = NoFrame
    /\ position_status = [t \in Tickers |-> FALSE]
    /\ trade_log = <<>>
    /\ results = <<>>
    /\ jobs = [n \in 1..Len(tickers) |-> NoJob]

\* the call for entry n of the list can be made: the for loop of the script
\* makes the calls one after the other, a pool makes them as it likes
MayStart(n) ==
    /\ n \in DOMAIN jobs
    /\ jobs[n].pc = "wait"
    /\ harness = "loop" => \A m \in 1..(n - 1) : jobs[m].pc = "done"

\* mutant: the result of a failed call is not appended
Failed_Drop(rs, s, t) == rs

\* results after the call for ticker t has raised inside its try
Failed(rs, s, t) == Append(rs, ErrorRecord(s, t))

\* the call raises (the download fails): the except branch returns the zero
\* dict, which is appended to results
Fail(n) ==
    /\ MayStart(n)
    /\ ~frames[tickers[n]].ok
    /\ results' = Failed(results, script, tickers[n])
    /\ jobs' = [jobs EXCEPT ![n].pc = "done",
                            ![n].out = ErrorRecord(script, tickers[n])]
    /\ UNCHANGED <<script, harness, tickers, frames, position_status, trade_log>>
    /\ UNCHANGED notbatch

\* the call downloads its frame and binds its locals
Begin(n) ==
    /\ MayStart(n)
    /\ frames[tickers[n]].ok
    /\ jobs' = [jobs EXCEPT
                  ![n].pc = "run",
                  ![n].L = [FreshLocals(script, position_status[tickers[n]])
                              EXCEPT !.status = FALSE]]
    /\ UNCHANGED <<script, harness, tickers, frames, position_status, trade_log,
                   results>>
    /\ UNCHANGED notbatch

\* one iteration of the loop of the call for entry n
Row(n) ==
    LET t == tickers[n]
        k == jobs[n].k + 1
    IN  /\ n \in DOMAIN jobs
        /\ jobs[n].pc = "run"
        /\ k <= Len(frames[t].rows)
        /\ LET b == frames[t].rows[k]
               L0 == [jobs[n].L EXCEPT !.status = position_status[t]]
               L1 == Step(script, L0, b, k)
           IN  /\ jobs' = [jobs EXCEPT ![n].k = k,
                                       ![n].L = [L1 EXCEPT !.status = FALSE]]
               /\ position_status' = [position_status EXCEPT ![t] = L1.status]
               /\ trade_log' = IF script = "MI"
                               THEN trade_log \o RowLog(t, L0, b, k)
                               ELSE trade_log
        /\ UNCHANGED <<script, harness, tickers, frames, results>>
        /\ UNCHANGED notbatch

\* the loop of the call for entry n is over: final block, totals, return, and
\* the caller appends the dict to results
Return(n) ==
    LET t == tickers[n]
        k == jobs[n].k
    IN  /\ n \in DOMAIN jobs
        /\ jobs[n].pc = "run"
        /\ k = Len(frames[t].rows)
        /\ LET b == frames[t].rows[k]
               L0 == [jobs[n].L EXCEPT !.status = position_status[t]]
               L1 == Final(script, L0, b, k)
           IN  /\ jobs' = [jobs EXCEPT ![n].pc = "done",
                                       ![n].L = [L1 EXCEPT !.status = FALSE],
                                       ![n].out = Record(script, t, L1)]
               /\ position_status' = [position_status EXCEPT ![t] = L1.status]
               /\ trade_log' = IF script = "MI"
                               THEN trade_log \o FinalLog(t, L0, b, k)
                               ELSE trade_log
               /\ results' = Append(results, Record(script, t, L1))
        /\ UNCHANGED <<script, harness, tickers, frames>>
        /\ UNCHANGED notbatch

BatchNext ==
    \E n \in Slots : Fail(n) \/ Begin(n) \/ Row(n) \/ Return(n)

Batch == BatchInit /\ [][BatchNext]_vars

\* detect_weinstein_signals of Trading_Script4 called, one ticker after the
\* other, with a position_status that the caller supplies
PollingInit ==
    /\ ReplayOff
    /\ RankOff
    /\ AlertOff
    /\ script = "S4"
    /\ harness = "loop"
    /\ tickers \in TickerLists
    /\ frames \in [Tickers -> Downloads(script)]
    /\ \A t \in Tickers :
         (\A n \in 1..Len(tickers) : tickers[n] # t) => frames[t] = NoFrame
    /\ position_status \in [Tickers -> BOOLEAN]
    /\ trade_log = <<>>
    /\ results = <<>>
    /\ jobs = [n \in 1..Len(tickers) |-> NoJob]

Polling == PollingInit /\ [][BatchNext]_vars

\* a row of a downloaded frame without a close: Close and Low are NaN, the
\* EMAs go on from the closes before it
GapBars ==
    { b \in EmaBars :
        /\ IsNaN(b.close) /\ IsNaN(b.low)
        /\ b.ema9 = 2 /\ b.ema200 = 2 /\ b.ema50 = 2 /\ b.ema20 = 2 }

\* what yf.download can do for one ticker of momemtum_ipdated when quotes can
\* be missing
GapDownloads ==
    {NoFrame}
      \cup {[ok |-> TRUE, rows |-> r] :
              r \in [1..BatchLen -> IpdatedBars \cup GapBars]}

\* momemtum_ipdated is loaded and runs its for loop over the list
JournalInit ==
    /\ ReplayOff
    /\ RankOff
    /\ AlertOff
    /\ script = "MI"
    /\ harness = "loop"
    /\ tickers \in TickerLists
    /\ frames \in [Tickers -> GapDownloads]
    /\ \A t \in Tickers :
         (\A n \in 1..Len(tickers) : tickers[n] # t) => frames[t] = NoFrame
    /\ position_status = [t \in Tickers |-> FALSE]
    /\ trade_log = <<>>
    /\ results = <<>>
    /\ jobs = [n \in 1..Len(tickers) |-> NoJob]

Journal == JournalInit /\ [][BatchNext]_vars

\* ------------------------------------------ the summary of a ticker list

\* the scripts whose dicts carry "CAGR (%)" and whose main ranks them
RankScripts == {"S1", "S3", "S4"}

RankTickers == {"A", "B", "C"}

\* the places of a ranked ticker list
RankSlots == {1, 2, 3}

\* nifty50_tickers: distinct tickers, but the list of Trading_Script3 names
\* NESTLEIND.NS twice
RankLists(s) ==
    IF s = "S3"
    THEN {<<"A", "B", "C">>, <<"A", "B", "A">>}
    ELSE {<<"A", "B", "C">>}

\* initial_capital
RankCapital == 160

\* cash (total_value in Trading_Script1) once the final block is over: a
\* sixteenth of the capital, the capital, sixteen times the capital, and NaN
\* after a final sale at a NaN close
FinalCash == {10, 160, 2560, NaN}

\* the days of four years of 365.25 days
FourYears == 1461

\* (df.index[-1] - df.index[0]).days: the index descends, holds one date,
\* ascends
Spans == {0 - FourYears, 0, FourYears}

\* what a call has come to when it reaches its return: the frame was too
\* short, a statement raised, or the totals block is entered with cash and
\* the span of the index
Outcomes ==
    {[status |-> "short", cash |-> RankCapital, days |-> 0],
     [status |-> "raised", cash |-> RankCapital, days |-> 0]}
    \cup [status : {"totals"}, cash : FinalCash, days : Spans]

\* years, a whole number for the spans above
Years(days) == (4 * days) \div FourYears

\* the k-th root of n / d as a pair <<p, q>> with (p / q) ^ k = n / d
Root(n, d, k) ==
    CHOOSE r \in (1..4) \X (1..4) : (r[1] ^ k) * d = (r[2] ^ k) * n

\* (n / d) ** (1 / years) for years # 0, as a pair <<p, q>>
Power(n, d, years) ==
    IF years > 0 THEN Root(n, d, years) ELSE Root(d, n, 0 - years)

\* ((cash / capital) ** (1 / years) - 1) * 100, in percent; nan for nan cash
Cagr(c, days) ==
    IF IsNaN(c) THEN NaN
    ELSE LET r == Power(c, RankCapital, Years(days))
         IN  ((r[1] - r[2]) * 100) \div r[2]

\* the trade of a replay that ends with cash c: one share bought at the
\* capital and sold at c
RankTrade(c) ==
    [EntryDate |-> 1, EntryPrice |-> RankCapital, ExitDate |-> 2,
     ExitPrice |-> c, Profit |-> Sub(c, RankCapital)]

\* trade_details of that replay: Trading_Script1 lists every trade, the
\* others the profitable ones
RankDetails(s, c) ==
    IF c = RankCapital THEN <<>>
    ELSE IF s = "S1" \/ Gt(Sub(c, RankCapital), 0) THEN <<RankTrade(c)>>
    ELSE <<>>

\* the dict returned by the totals block, with cagr as computed
RankRecord(s, t, c, cagr) ==
    [Ticker |-> t,
     Trades |-> IF c = RankCapital THEN 0 ELSE 1,
     TotalProfit |-> Round2(Sub(c, RankCapital)),
     CAGR |-> cagr,
     Successful |->
         Cardinality({k \in 1..Len(RankDetails(s, c)) :
                        Gt(RankDetails(s, c)[k].Profit, 0)}),
     TradeDetails |-> RankDetails(s, c)]

\* the dict of the too short frame and of the except branch
RankZero(t) ==
    [Ticker |-> t, Trades |-> 0, TotalProfit |-> 0, CAGR |-> 0,
     Successful |-> 0, TradeDetails |-> <<>>]

\* years, cagr and the returned dict: Trading_Script4 tests years > 0, the
\* others divide by years (the ZeroDivisionError is caught by the except)
Totals(s, t, J) ==
    IF s = "S4"
    THEN RankRecord(s, t, J.cash,
                    IF J.days > 0 THEN Cagr(J.cash, J.days) ELSE 0)
    ELSE IF J.days = 0 THEN RankZero(t)
    ELSE RankRecord(s, t, J.cash, Cagr(J.cash, J.days))

\* the dict that the call with outcome J returns
Summary(s, t, J) ==
    IF J.status = "totals" THEN Totals(s, t, J) ELSE RankZero(t)

\* row a may stand before row b: descending "CAGR (%)", NaN last
Before(a, b) ==
    IF IsNaN(a.CAGR) THEN IsNaN(b.CAGR)
    ELSE IsNaN(b.CAGR) \/ a.CAGR >= b.CAGR

\* sort_values(by="CAGR (%)", ascending=False): the sort is not stable, rows
\* of equal CAGR come in any order
SortValues(rs) ==
    { [n \in 1..Len(rs) |-> rs[p[n]]] :
        p \in { q \in [1..Len(rs) -> 1..Len(rs)] :
                  /\ \A a, b \in 1..Len(rs) : q[a] = q[b] => a = b
                  /\ \A a \in 1..(Len(rs) - 1) :
                       Before(rs[q[a]], rs[q[a + 1]]) } }

\* next(r for r in results if r['Ticker'] == t)
FirstOf(rs, t) ==
    rs[CHOOSE n \in 1..Len(rs) :
         /\ rs[n].Ticker = t
         /\ \A m \in 1..(n - 1) : rs[m].Ticker # t]

\* the module has been loaded and every call will come to its outcome
RankInit ==
    /\ ReplayOff
    /\ RankOff
    /\ AlertOff
    /\ script \in RankScripts
    /\ harness = "loop"
    /\ tickers \in RankLists(script)
    /\ frames = [t \in Tickers |-> NoFrame]
    /\ position_status = [t \in Tickers |-> FALSE]
    /\ trade_log = <<>>
    /\ results = <<>>
    /\ jobs \in [RankSlots -> Outcomes]

\* the for loop calls the function for the next ticker and appends its dict
Call ==
    /\ Len(results) < Len(tickers)
    /\ LET n == Len(results) + 1
       IN  results' = Append(results, Summary(script, tickers[n], jobs[n]))
    /\ UNCHANGED <<script, harness, tickers, frames, position_status,
                   trade_log, jobs>>
    /\ UNCHANGED notbatch

\* df_result = pd.DataFrame(results).sort_values(...)
Sort ==
    /\ Len(results) = Len(tickers)
    /\ df_result = <<>>
    /\ df_result' \in SortValues(results)
    /\ UNCHANGED <<top_stock, top_stock_details>>
    /\ UNCHANGED notrank

\* the trade list of the top stock is saved
SaveTop ==
    /\ df_result # <<>>
    /\ top_stock = ""
    /\ top_stock' = df_result[1].Ticker
    /\ top_stock_details' = FirstOf(results, df_result[1].Ticker)
    /\ UNCHANGED df_result
    /\ UNCHANGED notrank

RankNext == Call \/ Sort \/ SaveTop

Rank == RankInit /\ [][RankNext]_vars

\* ------------------------------------------------- the exit alert: one call

\* the copies of check_breakdown:
\*   "EA"  9ema_exit_signal_alert.py
\*   "WF"  .github/workflows/9ema_exit_signal_alert.py
\*   "EU"  9ema_exit_updated_script.py
AlertScripts == {"EA", "WF", "EU"}

\* len(df) < 10
MinRows == 10

\* span of the EMA; the ta library leaves the column NaN before row span - 1
EmaSpan == 9

\* rows of a frame that vary from frame to frame
TailLen == 3

\* the n-th row of a rising start of a frame
LeadRow(n) == [Date |-> n, Close |-> 2 * n + 2, Low |-> 2 * n + 1]

\* the first k rows of a frame: closes that rise, or whose second close
\* repeats the first
Lead(k, flat) ==
    [n \in 1..k |->
        IF flat /\ n = 2 THEN [LeadRow(1) EXCEPT !.Date = 2] ELSE LeadRow(n)]

\* Close and Low of the rows that follow: a higher close, closes under the
\* EMA, a close under the low of an earlier row and one equal to it, and
\* rows without Close or Low (the workflow copy is given numbers only)
TailQuotes(s) ==
    {<<18, 17>>, <<9, 8>>, <<9, 7>>, <<7, 6>>}
    \cup (IF s = "WF" THEN {} ELSE {<<NaN, 6>>, <<7, NaN>>})

\* what the download returns: no rows, or MinRows - 1 or MinRows rows
AlertFrames(s) ==
    {<<>>} \cup
    { Lead(k, flat) \o [n \in 1..TailLen |->
                          [Date |-> k + n, Close |-> t[n][1], Low |-> t[n][2]]] :
        k \in {MinRows - TailLen - 1, MinRows - TailLen},
        flat \in BOOLEAN,
        t \in [1..TailLen -> TailQuotes(s)] }

\* neither Close nor Low is NaN
Numeric(r) == ~IsNaN(r.Close) /\ ~IsNaN(r.Low)

\* the rows that check_breakdown scans: dropna(subset=['Close', 'Low']), not
\* in the workflow copy
Clean(s, rows) == IF s = "WF" THEN rows ELSE SelectSeq(rows, Numeric)

\* ewm(span=9, adjust=False).mean() at row n, times 5 ^ (n - 1): the first
\* value is the first close, every next one is 0.2 * close + 0.8 * the last
RECURSIVE Ema5(_, _)
Ema5(rows, n) ==
    IF n = 1 THEN rows[1].Close
    ELSE (5 ^ (n - 2)) * rows[n].Close + 4 * Ema5(rows, n - 1)

\* whether df['EMA9'] holds a number at row n
HasEma(s, n) == s # "EU" \/ n >= EmaSpan

\* c > EMA9 of row m, c < EMA9 of row m
AboveEma(s, c, rows, m) == HasEma(s, m) /\ c * (5 ^ (m - 1)) > Ema5(rows, m)

BelowEma(s, c, rows, m) == HasEma(s, m) /\ c * (5 ^ (m - 1)) < Ema5(rows, m)

\* c = EMA9 of row m
AtEma(s, c, rows, m) == HasEma(s, m) /\ c * (5 ^ (m - 1)) = Ema5(rows, m)

\* the test of the loop at row n >= 2 (i = n - 1)
Crossed(s, rows, n) ==
    CASE s = "EA" ->
           /\ AboveEma(s, rows[n - 1].Close, rows, n - 1)
                \/ AtEma(s, rows[n - 1].Close, rows, n - 1)
           /\ BelowEma(s, rows[n].Close, rows, n - 1)
                \/ AtEma(s, rows[n].Close, rows, n - 1)
      [] s = "WF" ->
           /\ AboveEma(s, rows[n - 1].Close, rows, n - 1)
           /\ BelowEma(s, rows[n].Close, rows, n - 1)
      [] s = "EU" ->
           BelowEma(s, rows[n].Close, rows, n)

\* check_breakdown(df): the first row that passes the test; a frame of fewer
\* than 10 rows is returned at once, rows without Close or Low are dropped
\* after that test
CheckBreakdown(s, rows) ==
    IF Len(rows) < MinRows THEN NoBreakdown(rows)
    ELSE LET c == Clean(s, rows)
             hits == {n \in 2..Len(c) : Crossed(s, c, n)}
         IN  IF hits = {} THEN NoBreakdown(c)
             ELSE [found |-> TRUE,
                   at |-> CHOOSE n \in hits : \A m \in hits : n <= m,
                   df |-> c]

\* mutant: the exit is triggered by a close at the low as well
Triggered_Le(latest_close, low) == latest_close <= low

\* latest_close < low_breakdown_candle
Triggered(latest_close, low) == latest_close < low

\* the dict that process_stock of 9ema_exit_signal_alert.py returns for the
\* frame rows when the send returns ok
Processed(rows, ok) ==
    LET b == CheckBreakdown("EA", rows)
        candle == b.df[b.at]
        latest == b.df[Len(b.df)]
    IN  IF rows = <<>> \/ Len(rows) < MinRows \/ ~b.found THEN NoRecord
        ELSE IF ~Triggered(latest.Close, candle.Low) THEN NoRecord
        ELSE [ExitTriggered |-> "Yes",
              AlertSent |-> IF ok THEN "Yes" ELSE "No",
              CandleDate |-> candle.Date,
              CandleLow |-> candle.Low,
              CurrentClose |-> latest.Close,
              Date |-> latest.Date]

\* no batch of backtests is running (script names the alert program)
NoBatch ==
    /\ harness = "loop"
    /\ tickers = <<>>
    /\ frames = [t \in Tickers |-> NoFrame]
    /\ position_status = [t \in Tickers |-> FALSE]
    /\ trade_log = <<>>
    /\ results = <<>>
    /\ jobs = <<>>

\* a frame has been downloaded for one stock
BreakdownInit ==
    /\ ReplayOff
    /\ NoBatch
    /\ RankOff
    /\ script \in AlertScripts
    /\ df \in AlertFrames(script)
    /\ breakdown = NoBreakdown(<<>>)
    /\ record = NoRecord
    /\ alerts_sent = {}
    /\ cycle = 0
    /\ step = "fetched"
    /\ threads = <<>>

\* check_breakdown is called on the frame
Check ==
    /\ step = "fetched"
    /\ breakdown' = CheckBreakdown(script, df)
    /\ step' = "checked"
    /\ UNCHANGED <<df, record, alerts_sent, cycle, sent>>
    /\ UNCHANGED notalert

\* process_stock of 9ema_exit_signal_alert.py on the frame: the call of
\* check_breakdown, the test of the latest close, the send and the record
ProcessStock ==
    /\ step = "fetched"
    /\ script = "EA"
    /\ \E ok \in BOOLEAN :
         /\ record' = Processed(df, ok)
         /\ sent' = IF Processed(df, ok).ExitTriggered = "Yes"
                    THEN Append(sent, [Ticker |-> "A", Ok |-> ok])
                    ELSE sent
    /\ breakdown' = IF Len(df) < MinRows THEN breakdown
                     ELSE CheckBreakdown("EA", df)
    /\ step' = "processed"
    /\ UNCHANGED <<df, alerts_sent, cycle>>
    /\ UNCHANGED notalert

BreakdownNext == Check \/ ProcessStock

Breakdown == BreakdownInit /\ [][BreakdownNext]_vars

\* ------------------------------------------ the exit alert: the programs

\* the programs that scan a list of stocks: 9ema_exit_signal_alert.py ("EA")
\* makes one pass over nifty50_tickers, the workflow copy ("WF") calls
\* monitor_stocks for ever
MonitorScripts == {"EA", "WF"}

\* calls of monitor_stocks that are followed
MaxCycles == 2

\* nifty50_tickers is a dict and nifty50_symbols a literal list that names
\* no stock twice
MonitorLists == {<<"A">>, <<"A", "B">>, <<"A", "B", "C">>}

\* the downloads of a scan: no rows, or MinRows rows whose last row differs
\* from the rows before it
MonitorFrames(s) ==
    {<<>>} \cup
    { Lead(MinRows - TailLen, flat) \o
        [n \in 1..TailLen |->
           [Date |-> MinRows - TailLen + n,
            Close |-> IF n < TailLen THEN p[1] ELSE q[1],
            Low |-> IF n < TailLen THEN p[2] ELSE q[2]]] :
        flat \in BOOLEAN, p \in TailQuotes(s), q \in TailQuotes(s) }

\* latest_df['Close'][-1] of the second download of monitor_stocks
LatestCloses == {5, 40}

\* mutant: the workflow copy builds its url from the token it has read
TokenBound_Workflow(s) == TRUE

\* whether the name TELEGRAM_BOT_TOKEN, from which send_telegram_message
\* builds its url, is bound in the module: the workflow copy binds
\* TELEGRAM_TOKEN instead, so that its send raises NameError
TokenBound(s) == s = "EA"

\* the module has been loaded
MonitorInit ==
    /\ ReplayOff
    /\ RankOff
    /\ script \in MonitorScripts
    /\ harness = "loop"
    /\ tickers \in MonitorLists
    /\ frames = [t \in Tickers |-> NoFrame]
    /\ position_status = [t \in Tickers |-> FALSE]
    /\ trade_log = <<>>
    /\ results = <<>>
    /\ jobs = <<>>
    /\ df = <<>>
    /\ breakdown = NoBreakdown(<<>>)
    /\ record = NoRecord
    /\ alerts_sent = {}
    /\ cycle = IF script = "WF" THEN 1 ELSE 0
    /\ step = [pc |-> "scan", k |-> 0]
    /\ threads = <<>>

\* one turn of the loop of 9ema_exit_signal_alert.py over nifty50_tickers:
\* process_stock and the append to summary_list
Pass ==
    /\ script = "EA"
    /\ step.pc = "scan"
    /\ step.k < Len(tickers)
    /\ \E rows \in MonitorFrames("EA"), ok \in BOOLEAN :
         LET rec == Processed(rows, ok)
             alert == rec.ExitTriggered = "Yes"
         IN  IF alert /\ ~TokenBound(script)
             THEN /\ step' = [pc |-> "raised", k |-> step.k]
                  /\ UNCHANGED <<record, results, sent>>
             ELSE /\ record' = rec
                  /\ results' = Append(results, rec)
                  /\ sent' = IF alert
                             THEN Append(sent, [Ticker |-> tickers[step.k + 1],
                                                Ok |-> ok])
                             ELSE sent
                  /\ step' = [pc |-> "scan", k |-> step.k + 1]
    /\ UNCHANGED <<df, breakdown, alerts_sent, cycle>>
    /\ UNCHANGED <<script, harness, tickers, frames, position_status,
                   trade_log, jobs>>
    /\ UNCHANGED <<localvars, rankvars, threadvars>>

\* the loop is over: the summary is printed and plotted
Summarise ==
    /\ script = "EA"
    /\ step.pc = "scan"
    /\ step.k = Len(tickers)
    /\ step' = [pc |-> "ended", k |-> step.k]
    /\ UNCHANGED <<df, breakdown, record, alerts_sent, cycle, sent>>
    /\ UNCHANGED notalert

\* one turn of the loop of monitor_stocks over nifty50_symbols
Scan ==
    /\ script = "WF"
    /\ step.pc = "scan"
    /\ step.k < Len(tickers)
    /\ \E rows \in MonitorFrames("WF"), latest_close \in LatestCloses :
         LET b == CheckBreakdown("WF", rows)
             symbol == tickers[step.k + 1]
             alert == /\ b.found
                      /\ Triggered(latest_close, b.df[b.at].Low)
                      /\ symbol \notin alerts_sent
         IN  IF alert /\ ~TokenBound(script)
             THEN /\ step' = [pc |-> "raised", k |-> step.k]
                  /\ UNCHANGED <<alerts_sent, sent>>
             ELSE /\ sent' = IF alert
                             THEN Append(sent, [Ticker |-> symbol, Ok |-> TRUE])
                             ELSE sent
                  /\ alerts_sent' = IF alert THEN alerts_sent \cup {symbol}
                                    ELSE alerts_sent
                  /\ step' = [pc |-> "scan", k |-> step.k + 1]
    /\ UNCHANGED <<df, breakdown, record, cycle>>
    /\ UNCHANGED notalert

\* monitor_stocks returns, the program sleeps for a day and calls it again:
\* the call starts from an empty set
Wait ==
    /\ script = "WF"
    /\ step.pc = "scan"
    /\ step.k = Len(tickers)
    /\ cycle < MaxCycles
    /\ cycle' = cycle + 1
    /\ alerts_sent' = {}
    /\ step' = [pc |-> "scan", k |-> 0]
    /\ UNCHANGED <<df, breakdown, record, sent>>
    /\ UNCHANGED notalert

MonitorNext == Pass \/ Summarise \/ Scan \/ Wait

Monitor == MonitorInit /\ [][MonitorNext]_vars

\* ------------------------------------------------- the indicator columns

\* the longest frame handed to compute_wma_and_slope
MaxRows == 33

\* the close of bar 0 and the differences between closes
Starts == 8..12

Steps == 1..3

\* a frame of n rows before compute_wma_and_slope: the close of bar t (row
\* t + 1) is a + b * t, and the last close is raised by kink
Series(a, b, n, kink) ==
    [r \in 1..n |-> [Close |-> a + b * (r - 1) + (IF r = n THEN kink ELSE 0)]]

\* the frames followed: WmaWindow - 1 rows or more
IndicatorFrames ==
    { Series(a, b, n, kink) :
        a \in Starts, b \in Steps, n \in (WmaWindow - 1)..MaxRows,
        kink \in {0, 1} }

\* the fraction bits of a float64
Mantissa == 52

\* a float64 of the WMA and WMA_Slope columns: its integer part and the
\* Mantissa bits that follow the binary point; NaN has no bits
NaNF == [int |-> NaN, frac |-> <<>>]

\* the exponent of n >= 1
RECURSIVE Log2(_)
Log2(n) == IF n < 2 THEN 0 ELSE 1 + Log2(n \div 2)

\* the first k bits of r / d after the binary point, for r < d
RECURSIVE QuotientBits(_, _, _)
QuotientBits(r, d, k) ==
    IF k = 0 THEN <<>>
    ELSE <<(2 * r) \div d>> \o QuotientBits((2 * r) % d, d, k - 1)

\* what is left of r once k bits have been taken
RECURSIVE Remainder(_, _, _)
Remainder(r, d, k) == IF k = 0 THEN r ELSE Remainder((2 * r) % d, d, k - 1)

\* the bits plus one in the last place, and the carry out of the first
Inc(bits) ==
    LET zeros == {k \in 1..Len(bits) : bits[k] = 0}
        z == CHOOSE k \in zeros : \A m \in zeros : m <= k
    IN  IF zeros = {} THEN [bits |-> [k \in 1..Len(bits) |-> 0], carry |-> 1]
        ELSE [bits |-> [k \in 1..Len(bits) |->
                          IF k < z THEN bits[k] ELSE IF k = z THEN 1 ELSE 0],
              carry |-> 0]

\* n / d as numpy divides two float64 that hold the integers n >= d: the
\* quotient rounded to 53 significant bits, ties to even
Float64Div(n, d) ==
    LET q == n \div d
        e == Log2(q)
        p == Mantissa - e
        kept == QuotientBits(n % d, d, p)
        rest == Remainder(n % d, d, p)
        odd == IF p = 0 THEN q % 2 = 1 ELSE kept[p] = 1
        up == 2 * rest > d \/ (2 * rest = d /\ odd)
        r == IF up THEN Inc(kept) ELSE [bits |-> kept, carry |-> 0]
    IN  [int |-> q + r.carry, frac |-> r.bits \o [k \in 1..e |-> 0]]

\* the bits of x after place k are less than those of y
Borrow(x, y, k) ==
    \E j \in (k + 1)..Len(x) :
        /\ x[j] < y[j]
        /\ \A m \in (k + 1)..(j - 1) : x[m] = y[m]

\* the bits of x minus those of y, and the borrow out of the first
SubBits(x, y) ==
    [bits |-> [k \in 1..Len(x) |->
                 (x[k] - y[k] - (IF Borrow(x, y, k) THEN 1 ELSE 0) + 2) % 2],
     borrow |-> IF Borrow(x, y, 0) THEN 1 ELSE 0]

\* x - y for two float64 of the WMA column: they are at least 16 and less
\* than 4 apart, so that the difference has no bit below the last place of
\* a float64 and is not rounded; a difference under 0 has int < 0
Float64Sub(x, y) ==
    LET s == SubBits(x.frac, y.frac)
    IN  [int |-> x.int - y.int - s.borrow, frac |-> s.bits]

\* np.arange(1, 31).sum()
WeightSum == (WmaWindow * (WmaWindow + 1)) \div 2

\* np.dot(prices, np.arange(1, 31)) for the window that ends at bar t: the
\* j oldest closes of the window, weighted 1..j; the closes are integers
\* and the sum is exact in float64
RECURSIVE Dot(_, _, _)
Dot(rows, t, j) ==
    IF j = 0 THEN 0
    ELSE j * rows[t - WmaWindow + j + 1].Close + Dot(rows, t, j - 1)

\* mutant: the window is filled from bar 0 on, the bars before it counting
\* as bar 0
Rolling_Padded(rows, t) ==
    LET pad == [r \in 1..(WmaWindow - 1) |-> rows[1]] \o rows
    IN  Float64Div(Dot(pad, t + WmaWindow - 1, WmaWindow), WeightSum)

\* df['Close'].rolling(window=30).apply(...) at bar t: NaN until the window
\* holds 30 closes, and NaN when one of them is
Rolling(rows, t) ==
    IF t < WmaWindow - 1 THEN NaNF
    ELSE IF \E j \in 1..WmaWindow : rows[t - WmaWindow + j + 1].Close = NaN
         THEN NaNF
         ELSE Float64Div(Dot(rows, t, WmaWindow), WeightSum)

\* df['WMA'].diff(1) at bar t, for the column wma
Diff(wma, t) ==
    IF t = 0 THEN NaNF
    ELSE IF wma[t + 1] = NaNF \/ wma[t] = NaNF THEN NaNF
    ELSE Float64Sub(wma[t + 1], wma[t])

\* the frame that compute_wma_and_slope returns; EMA9 is a function of
\* Close alone and is not kept
ComputeWmaAndSlope(rows) ==
    LET wma == [r \in 1..Len(rows) |-> Rolling(rows, r - 1)]
    IN  [r \in 1..Len(rows) |->
           [Close |-> rows[r].Close, WMA |-> wma[r],
            WMA_Slope |-> Diff(wma, r - 1)]]

\* the frame has been downloaded
IndicatorsInit ==
    /\ ReplayOff
    /\ BatchOff
    /\ RankOff
    /\ df \in IndicatorFrames
    /\ breakdown = NoBreakdown(<<>>)
    /\ record = NoRecord
    /\ alerts_sent = {}
    /\ cycle = 0
    /\ step = "downloaded"
    /\ threads = <<>>

\* compute_wma_and_slope(df)
Compute ==
    /\ step = "downloaded"
    /\ df' = ComputeWmaAndSlope(df)
    /\ step' = "computed"
    /\ UNCHANGED <<breakdown, record, alerts_sent, cycle, sent>>
    /\ UNCHANGED notalert

IndicatorsNext == Compute

Indicators == IndicatorsInit /\ [][IndicatorsNext]_vars

\* ------------------------------------------------------ the EMA columns

\* the scripts whose EMA columns are followed: Trading_Script1.py adds EMA9,
\* momemtum_script.py adds 200EMA, 50EMA, 20EMA and 9EMA
EwmScripts == {"S1", "MS"}

\* the longest frame handed to ewm
EwmLen == 3

\* the closes of those frames
EwmCloses == {2, 3, 4}

\* the frames before the columns are added
EwmFrames ==
    UNION { [1..n -> [Close : EwmCloses]] : n \in 1..EwmLen }

\* the spans of the columns of a script
EwmSpans(s) == IF s = "S1" THEN {9} ELSE {9, 20, 50, 200}

\* a column that the script does not add
NoEma == [num |-> None, den |-> 1]

\* mutant: the average starts from 0
Seed_Zero(rows) == 0

\* the first value of ewm(adjust=False).mean(): the first close
Seed(rows) == rows[1].Close

\* ewm(span=span, adjust=False).mean() at row n, as the fraction num / den:
\* with alpha = 2 / (span + 1), the last value w becomes
\* alpha * close + (1 - alpha) * w, and is left as it is when the close
\* equals it (pandas skips the update on a constant series)
RECURSIVE Ewm(_, _, _)
Ewm(rows, span, n) ==
    IF n = 1 THEN [num |-> Seed(rows), den |-> 1]
    ELSE LET w == Ewm(rows, span, n - 1)
             cur == rows[n].Close
         IN  IF w.num = cur * w.den THEN w
             ELSE [num |-> (span - 1) * w.num + 2 * cur * w.den,
                   den |-> (span + 1) * w.den]

\* the column of span for script s
EmaColumn(s, rows, span, n) ==
    IF span \in EwmSpans(s) THEN Ewm(rows, span, n) ELSE NoEma

\* the frame with the EMA columns of script s
WithEmas(s, rows) ==
    [n \in 1..Len(rows) |->
       [Close |-> rows[n].Close,
        EMA9 |-> EmaColumn(s, rows, 9, n),
        EMA20 |-> EmaColumn(s, rows, 20, n),
        EMA50 |-> EmaColumn(s, rows, 50, n),
        EMA200 |-> EmaColumn(s, rows, 200, n)]]

\* the frame has been downloaded
EwmInit ==
    /\ ReplayOff
    /\ NoBatch
    /\ RankOff
    /\ script \in EwmScripts
    /\ df \in EwmFrames
    /\ breakdown = NoBreakdown(<<>>)
    /\ record = NoRecord
    /\ alerts_sent = {}
    /\ cycle = 0
    /\ step = "downloaded"
    /\ threads = <<>>

\* compute_indicators(df); the EMA9 line of compute_wma_and_slope(df)
ComputeIndicators ==
    /\ step = "downloaded"
    /\ df' = WithEmas(script, df)
    /\ step' = "computed"
    /\ UNCHANGED <<breakdown, record, alerts_sent, cycle, sent>>
    /\ UNCHANGED notalert

EwmNext == ComputeIndicators

Averages == EwmInit /\ [][EwmNext]_vars

\* ------------------------------------------------ the entry in float64

\* the amounts from which the closes of an entry are made, the larger being
\* the default of the capital argument
Amounts == {1000, 100000}

\* the largest divisor of an amount
MaxDivisor == 30

\* the float64 that holds the integer n
Float(n) == [int |-> n, frac |-> [k \in 1..Mantissa |-> 0]]

\* closes of an adjusted frame: the float64 nearest to a / d
QuotientCloses ==
    { Float64Div(a, d) : a \in Amounts, d \in 1..MaxDivisor }

\* x < y for two float64 that are not negative
FloatLess(x, y) ==
    \/ x.int < y.int
    \/ /\ x.int = y.int
       /\ \E j \in 1..Mantissa :
            /\ x.frac[j] < y.frac[j]
            /\ \A m \in 1..(j - 1) : x.frac[m] = y.frac[m]

\* the carry into place k of n times the bits: what the places after k give
RECURSIVE CarryInto(_, _, _)
CarryInto(bits, n, k) ==
    IF k = Len(bits) THEN 0
    ELSE (n * bits[k + 1] + CarryInto(bits, n, k + 1)) \div 2

\* n * x without rounding, for a whole number n
Times(n, x) ==
    [int |-> n * x.int + CarryInto(x.frac, n, 0),
     frac |-> [k \in 1..Mantissa |->
                 (n * x.frac[k] + CarryInto(x.frac, n, k)) % 2]]

\* x rounded to the 53 significant bits of a float64, ties to even (a value
\* under 1 with Mantissa fraction bits has no more than that)
Round53(x) ==
    IF x.int < 1 THEN x
    ELSE LET e == Log2(x.int)
             p == Mantissa - e
             kept == SubSeq(x.frac, 1, p)
             odd == IF p = 0 THEN x.int % 2 = 1 ELSE kept[p] = 1
             half == e > 0 /\ x.frac[p + 1] = 1
             more == \E j \in (p + 2)..Mantissa : x.frac[j] = 1
             up == half /\ (more \/ odd)
             r == IF up THEN Inc(kept) ELSE [bits |-> kept, carry |-> 0]
         IN  [int |-> x.int + r.carry, frac |-> r.bits \o [k \in 1..e |-> 0]]

\* mutant: one share more than the floor
FloorDivide_Ceiling(c, x) == (c \div x.int) + 1

\* cash // entry_price for a whole cash and a price of at least 1: CPython
\* takes fmod, which is exact, and returns the floor of the quotient of the
\* two floats, the largest n with n * price <= cash
FloorDivide(c, x) ==
    LET fits(n) == LET t == Times(n, x)
                   IN  t.int < c \/ t = Float(c)
    IN  CHOOSE n \in (c \div (x.int + 1))..(c \div x.int) :
            /\ fits(n)
            /\ \A m \in (n + 1)..(c \div x.int) : ~fits(m)

\* the state at the entry of the loop of Trading_Script1 or momemtum_script,
\* with cash and prices as float64
PurchaseInit ==
    /\ variant \in {"S1", "MS"}
    /\ capital \in Amounts
    /\ length = MinLength(variant)
    /\ pc = "loop"
    /\ i = 0
    /\ row = None
    /\ bar = NoBar
    /\ frame = [old |-> FALSE, taint |-> 0, prev_nan |-> FALSE, seen |-> TRUE]
    /\ in_position = FALSE
    /\ entry_price = Float(0)
    /\ trades = 0
    /\ cash = Float(capital)
    /\ shares = 0
    /\ entry_date = None
    /\ trade_details = <<>>
    /\ current_trade = NoTrade
    /\ breakdown_candle_low = None
    /\ total_value = None
    /\ result = None
    /\ cash_before_entry = None
    /\ realized = 0
    /\ wins = 0
    /\ eligible = FALSE
    /\ ev = NoEvent
    /\ portfolio_timeline = NoTimeline
    /\ sent = <<>>
    /\ BatchOff
    /\ RankOff
    /\ AlertOff

\* the buy block on the first row that meets the entry tests, with close x:
\* entry_price = close, shares = cash // entry_price and, when shares > 0,
\* cash -= shares * entry_price, the product and the difference rounded
Purchase ==
    /\ pc = "loop"
    /\ i = 0
    /\ \E x \in QuotientCloses :
         LET sh == FloorDivide(capital, x)
         IN  /\ bar' = [NoBar EXCEPT !.close = x]
             /\ entry_price' = x
             /\ shares' = sh
             /\ in_position' = (sh > 0)
             /\ cash' = IF sh > 0
                        THEN Round53(Float64Sub(cash, Round53(Times(sh, x))))
                        ELSE cash
             /\ cash_before_entry' = cash
    /\ i' = 1
    /\ row' = NextRow
    /\ UNCHANGED <<variant, capital, length, pc, frame, trades, entry_date,
                   trade_details, current_trade, breakdown_candle_low,
                   total_value, result, realized, wins, eligible, ev,
                   portfolio_timeline, sent>>
    /\ UNCHANGED notreplay

Entries == PurchaseInit /\ [][Purchase]_vars

\* ---------------------------------------------- the threaded live monitor

\* nifty50_tickers of updated_buy_on_stage2_sell_on_stage3 (no ticker twice)
ThreadTickers == <<"A", "B">>

\* the last row of the one-minute frame: a rising close above the WMA, a
\* falling close below it, a flat one, and a frame too short for a WMA
LatestRows ==
    { [close |-> 5, wma |-> 2, slope |-> 1],
      [close |-> 2, wma |-> 5, slope |-> 0 - 1],
      [close |-> 5, wma |-> 2, slope |-> 0],
      [close |-> 5, wma |-> NaN, slope |-> NaN] }

\* what yf.download can do in one cycle
Fetches == {"raise", "empty", "frame"}

\* a thread that has entered monitor_ticker for ticker t
NewThread(t) ==
    [ticker |-> t, pc |-> "download", in_position |-> FALSE,
     latest |-> [close |-> NaN, wma |-> NaN, slope |-> NaN],
     message |-> "", error |-> "", k |-> 0]

\* the signal of the if / elif of monitor_ticker, "" when neither holds
Signal(th) ==
    IF ~th.in_position /\ Gt(th.latest.close, th.latest.wma)
         /\ Gt(th.latest.slope, 0)
    THEN "BUY"
    ELSE IF th.in_position /\ Lt(th.latest.close, th.latest.wma)
              /\ Lt(th.latest.slope, 0)
         THEN "SELL"
         ELSE ""

\* mutant: the handler of monitor_ticker flips the flag of a signal whose
\* notification raised
Raised_Flipped(th, e) ==
    [th EXCEPT !.pc = "sleep", !.error = e, !.in_position = ~@]

\* the except branch of monitor_ticker: the error is printed, the locals stay
Raised(th, e) == [th EXCEPT !.pc = "sleep", !.error = e]

\* the main thread starts the thread of the next ticker of the list
StartThread ==
    /\ Len(threads) < Len(ThreadTickers)
    /\ threads' = Append(threads, NewThread(ThreadTickers[Len(threads) + 1]))
    /\ UNCHANGED <<sent, df, breakdown, record, alerts_sent, cycle, step>>
    /\ UNCHANGED <<localvars, batchvars, rankvars>>

\* thread n downloads its frame and reads the last row: the download raises,
\* or the frame is empty (sleep and continue), or the row is there
Download(n) ==
    /\ n \in DOMAIN threads
    /\ threads[n].pc = "download"
    /\ threads[n].k < MaxCycles
    /\ \E f \in Fetches, latest \in LatestRows :
         threads' =
           [threads EXCEPT ![n] =
              IF f = "raise" THEN Raised(@, "download")
              ELSE IF f = "empty" THEN [@ EXCEPT !.k = @ + 1]
              ELSE [@ EXCEPT !.pc = "generate", !.latest = latest]]
    /\ UNCHANGED <<sent, df, breakdown, record, alerts_sent, cycle, step>>
    /\ UNCHANGED <<localvars, batchvars, rankvars>>

\* thread n tests its row and builds the message of its signal
Generate(n) ==
    /\ n \in DOMAIN threads
    /\ threads[n].pc = "generate"
    /\ LET th == threads[n]
       IN  threads' =
             [threads EXCEPT ![n] =
                IF Signal(th) = "" THEN [th EXCEPT !.pc = "sleep"]
                ELSE [th EXCEPT !.pc = "send", !.message = Signal(th)]]
    /\ UNCHANGED <<sent, df, breakdown, record, alerts_sent, cycle, step>>
    /\ UNCHANGED <<localvars, batchvars, rankvars>>

\* thread n calls send_telegram_message: the url is built from the unbound
\* name TELEGRAM_BOT_TOKEN, so the call raises NameError outside its own try;
\* were the name bound, the post would be made or fail inside the try, the
\* call would return and the flag would be set from the signal
SendTelegramMessage(n) ==
    /\ n \in DOMAIN threads
    /\ threads[n].pc = "send"
    /\ IF ~TokenBound("TM")
       THEN /\ threads' = [threads EXCEPT ![n] = Raised(@, "NameError")]
            /\ sent' = sent
       ELSE \E posted \in BOOLEAN :
              /\ sent' = IF posted
                         THEN Append(sent, [Ticker |-> threads[n].ticker,
                                            Action |-> threads[n].message])
                         ELSE sent
              /\ threads' =
                   [threads EXCEPT
                      ![n].in_position = (threads[n].message = "BUY"),
                      ![n].pc = "sleep"]
    /\ UNCHANGED <<df, breakdown, record, alerts_sent, cycle, step>>
    /\ UNCHANGED <<localvars, batchvars, rankvars>>

\* time.sleep(60) at the bottom of the loop of thread n
Sleep(n) ==
    /\ n \in DOMAIN threads
    /\ threads[n].pc = "sleep"
    /\ threads' = [threads EXCEPT ![n].pc = "download", ![n].k = @ + 1]
    /\ UNCHANGED <<sent, df, breakdown, record, alerts_sent, cycle, step>>
    /\ UNCHANGED <<localvars, batchvars, rankvars>>

\* the module has been loaded; no thread has been started
ThreadedInit ==
    /\ ReplayOff
    /\ BatchOff
    /\ RankOff
    /\ AlertOff

ThreadedNext ==
    \/ StartThread
    \/ \E n \in 1..Len(ThreadTickers) :
         Download(n) \/ Generate(n) \/ SendTelegramMessage(n) \/ Sleep(n)

Threaded == ThreadedInit /\ [][ThreadedNext]_vars

\* -------------------------------------------------------------- properties

\* a step that replays one row
IsBarStep == pc = "loop" /\ i' = i + 1

\* the step that ends the run
IsFinishStep == pc = "loop" /\ pc' = "done" /\ ~ev'.short

\* C1: in every variant, after every bar and after the end-of-series step,
\* shares > 0 holds exactly when in_position is True (the single flag and the
\* single share count allow at most one open position).
C1_SharesIffLong == (shares > 0) <=> in_position

\* C1 restricted to the loop: between bars shares > 0 iff in_position.
C1_SharesIffLongInLoop == pc = "loop" => ((shares > 0) <=> in_position)

\* C2: in the WMA_SLOPE_EMA variant a bar takes the position from FLAT to LONG
\* exactly when the state before the bar is FLAT, close, WMA, slope and EMA
\* are all defined, close > ema, close > wma, slope > 0 and
\* floor(cash / close) > 0; then entry_price is the close, shares is
\* floor(cash / close), cash is reduced by shares * close and the marker is
\* unset.
C2_Entry ==
    [][ (IsBarStep /\ variant = "S3") =>
          LET b == bar'
              defined == /\ ~IsNaN(b.close) /\ ~IsNaN(b.wma)
                         /\ ~IsNaN(b.slope) /\ ~IsNaN(b.ema9)
              entry == /\ ~in_position
                       /\ defined
                       /\ b.close > b.ema9 /\ b.close > b.wma /\ b.slope > 0
                       /\ cash \div b.close > 0
          IN  /\ (~in_position /\ in_position') <=> entry
              /\ entry =>
                   /\ entry_price' = b.close
                   /\ shares' = cash \div b.close
                   /\ cash' = cash - (cash \div b.close) * b.close
                   /\ breakdown_candle_low' = None
                   /\ entry_date' = i'
              /\ ~entry => (in_position' => in_position) ]_vars

\* C2 witness: the WMA_SLOPE_EMA variant has just bought on this bar.
C2_Witness ==
    /\ variant = "S3" /\ pc = "loop" /\ ev.bought
    /\ in_position /\ shares > 0 /\ entry_date = i

\* the position is LONG when the bar reaches the breakdown and exit blocks:
\* it was LONG before the bar or it was bought on this bar
LongOnBar == in_position \/ ev'.bought

\* the marker the bar starts its breakdown block with (a buy unsets it)
HeldMarker == IF ev'.bought THEN None ELSE breakdown_candle_low

\* the marker at the exit check: the one held, or the low of this bar when
\* this bar has just been made the breakdown candle
MarkerOnBar ==
    IF HeldMarker # None THEN HeldMarker
    ELSE IF ev'.marked THEN bar'.low
    ELSE None

\* shares and cash of the position at the exit check
SharesOnBar == IF ev'.bought THEN cash \div bar'.close ELSE shares

CashOnBar ==
    IF ev'.bought THEN cash - (cash \div bar'.close) * bar'.close ELSE cash

\* the exit condition of the claim C3
ExitDue == LongOnBar /\ MarkerOnBar # None /\ Lt(bar'.close, MarkerOnBar)

\* what an exit on this bar leaves behind
ExitEffect ==
    /\ cash' = CashOnBar + SharesOnBar * bar'.close
    /\ ~in_position'
    /\ shares' = 0
    /\ breakdown_candle_low' = None

\* C3 as stated: a bar closes the position exactly when the position is LONG,
\* the marker is set (possibly on this same bar) and close < breakdownLow; the
\* exit is at the close, cash is credited shares * close and afterwards the
\* state is FLAT with shares = 0 and the marker unset.
C3_ExitAsStated ==
    [][ IsBarStep =>
          /\ (trades' = trades + 1) <=> ExitDue
          /\ (trades' = trades + 1) => ExitEffect ]_vars

\* C3 amended: the same, on the bars the loop evaluates; a bar that the NaN
\* guard skips closes nothing.
C3_Exit ==
    [][ IsBarStep =>
          /\ (trades' = trades + 1) <=> (~Inert(variant, bar') /\ ExitDue)
          /\ (trades' = trades + 1) => ExitEffect
          /\ trades' \in {trades, trades + 1} ]_vars

\* C3 witness: a position bought on an earlier bar has just been closed by the
\* breakdown exit, the marker having been set before this bar.
C3_Witness ==
    /\ pc = "loop" /\ ev.sold /\ ~ev.bought /\ ~ev.marked
    /\ ~in_position /\ shares = 0 /\ trades > 0

\* the bar is the breakdown candle of the claim C4
MarkDue == LongOnBar /\ HeldMarker = None /\ Lt(bar'.close, bar'.ema9)

\* C4 as stated: while LONG the marker is set on the first bar since entry
\* whose close is below the short EMA, to the low of that bar; it is never set
\* while FLAT nor from a bar whose close is not below the EMA.
C4_MarkAsStated ==
    [][ IsBarStep =>
          /\ ev'.marked <=> MarkDue
          /\ ev'.marked => ev'.marker = bar'.low
          /\ trades' = trades =>
               breakdown_candle_low' =
                   IF MarkDue THEN bar'.low ELSE HeldMarker
          /\ breakdown_candle_low' # None => in_position' ]_vars

\* C4 amended: the marker is set on the first bar since entry that the loop
\* evaluates and whose close is below the short EMA (a bar skipped by the NaN
\* guard sets nothing), to the low of that bar; never while FLAT, never from a
\* bar whose close is not below the EMA.
C4_Mark ==
    [][ IsBarStep =>
          LET due == ~Inert(variant, bar') /\ MarkDue
          IN  /\ ev'.marked <=> due
              /\ ev'.marked => ev'.marker = bar'.low
              /\ trades' = trades =>
                   breakdown_candle_low' =
                       IF due THEN bar'.low ELSE HeldMarker
              /\ breakdown_candle_low' # None => in_position' ]_vars

\* C4 witness: a bar after the entry bar has just become the breakdown candle.
C4_Witness ==
    /\ pc = "loop" /\ ev.marked /\ ~ev.bought /\ in_position
    /\ breakdown_candle_low = bar.low /\ Lt(bar.close, bar.ema9)

\* C5: once the marker is set during a position, no later bar of that position
\* changes it, whether its close is at or above the EMA or below it again.
C5_Sticky ==
    [][ (in_position /\ breakdown_candle_low # None
           /\ in_position' /\ trades' = trades) =>
          breakdown_candle_low' = breakdown_candle_low ]_vars

\* C5 witness: the marker was set on an earlier bar, and this bar of the same
\* position closes below the EMA with another low.
C5_Witness ==
    /\ pc = "loop" /\ in_position /\ ~ev.marked /\ ~ev.bought
    /\ breakdown_candle_low # None /\ ~IsNaN(breakdown_candle_low)
    /\ Lt(bar.close, bar.ema9) /\ ~IsNaN(bar.low)
    /\ bar.low # breakdown_candle_low

\* C6: every closed position, in profit or in loss, closed by the breakdown
\* exit or by the end-of-series liquidation, is appended once to the trade
\* list, so that at completion the list is as long as the trade counter says.
C6_AllTradesListed ==
    (pc = "done" /\ variant \in ListVariants) =>
        /\ Len(trade_details) = trades
        /\ Len(result.TradeDetails) = result.Trades

\* the price a closing step sells at: the close of the bar, or of the last
\* row when the series has ended
ExitPrice == bar'.close

\* the shares a closing step sells
SharesSold == IF IsBarStep THEN SharesOnBar ELSE shares

\* C7: for every completed trade, cash right after the sale is the cash right
\* before the matching entry plus shares * (exitPrice - entryPrice), shares
\* being the quantity bought at the entry; nothing else is added or withheld.
C7_CashConservation ==
    [][ (trades' = trades + 1) =>
          /\ cash' = Add(cash_before_entry',
                         Mul(SharesSold, Sub(ExitPrice, entry_price')))
          /\ SharesSold = cash_before_entry' \div entry_price'
          /\ SharesSold > 0 ]_vars

\* C7 witness: a position bought on an earlier bar has just been sold at
\* another price than it was bought at.
C7_Witness ==
    /\ pc = "loop" /\ ev.sold /\ ~ev.bought
    /\ bar.close # entry_price /\ cash # cash_before_entry /\ trades >= 1

\* sum of the Profit fields of a trade list
RECURSIVE SumProfit(_)
SumProfit(td) ==
    IF td = <<>> THEN 0
    ELSE Add(SumProfit(SubSeq(td, 1, Len(td) - 1)), td[Len(td)].Profit)

\* the state is FLAT
Flat == ~in_position

\* C8: whenever the position is FLAT, cash equals the initial capital plus the
\* sum of the profits of all positions closed so far (in the variant that
\* lists every trade, the sum of the listed profits).
C8_FlatCash ==
    Flat =>
        /\ cash = Add(capital, realized)
        /\ variant = "S1" => cash = Add(capital, SumProfit(trade_details))

\* C8 witness: FLAT again after a closed position that made or lost money.
C8_Witness ==
    /\ pc = "loop" /\ ~in_position /\ trades >= 1
    /\ realized # 0 /\ ~IsNaN(realized)

\* C9: when the series ends with the position LONG, the position is closed at
\* the close of the last bar whatever the marker says, and exactly one terminal
\* trade joins the trade list; when it ends FLAT the list is left alone.
C9_TerminalTrade ==
    [][ (IsFinishStep /\ variant \in ListVariants) =>
          IF in_position
          THEN /\ trades' = trades + 1
               /\ cash' = Add(cash, Mul(shares, bar.close))
               /\ Len(trade_details') = Len(trade_details) + 1
               /\ trade_details'[Len(trade_details')].ExitPrice = bar.close
               /\ result'.TradeDetails = trade_details'
          ELSE /\ trades' = trades
               /\ trade_details' = trade_details ]_vars

\* C10 as stated: at completion totalProfit is final cash minus initial
\* capital, and successfulTrades is the number of closed positions (breakdown
\* exits and the terminal liquidation) with profit > 0.
C10_TotalsAsStated ==
    (pc = "done" /\ variant \in ListVariants) =>
        /\ result.TotalProfit = Sub(cash, capital)
        /\ result.Successful = wins

\* C10 amended: the reported total profit is final cash minus initial capital
\* rounded to two decimals; successfulTrades is the number of closed positions
\* with profit > 0.
C10_Totals ==
    (pc = "done" /\ variant \in ListVariants) =>
        /\ result.TotalProfit = Round2(Sub(cash, capital))
        /\ result.Successful = wins
        /\ result.Trades = trades

\* C10 witness: a run has ended with a winning and a losing or even position
\* closed, and with a total profit that is not a whole number of hundredths.
C10_Witness ==
    /\ pc = "done" /\ variant \in ListVariants
    /\ wins >= 1 /\ trades > wins
    /\ ~IsNaN(cash) /\ (cash - capital) % Quantum # 0

\* an indicator the variant consumes, or the close, is undefined on the bar
Undefined(v, b) ==
    IF v \in WmaVariants
    THEN IsNaN(b.close) \/ IsNaN(b.wma) \/ IsNaN(b.slope) \/ IsNaN(b.ema9)
    ELSE \/ IsNaN(b.close) \/ IsNaN(b.ema9)
         \/ IsNaN(b.ema200) \/ IsNaN(b.ema50) \/ IsNaN(b.ema20)

\* C11: a bar on which a consumed indicator or the close is undefined is inert:
\* position state, cash, shares, marker, trade counter and trade list after
\* the bar are what they were before it.
C11_InertBar ==
    [][ (IsBarStep /\ Undefined(variant, bar')) =>
          UNCHANGED <<in_position, cash, shares, breakdown_candle_low, trades,
                      trade_details>> ]_vars

\* C11 witness: a LONG position with the marker set has just passed a bar whose
\* WMA is undefined and whose close is below the marker.
C11_Witness ==
    /\ pc = "loop" /\ i > 0 /\ in_position /\ breakdown_candle_low # None
    /\ IsNaN(bar.wma) /\ Lt(bar.close, breakdown_candle_low)

\* C12: when the entry conditions hold on a bar but floor(cash / close) is 0,
\* the state stays FLAT, cash is unchanged, no trade is opened or counted, the
\* marker stays unset and the run goes on without an error.
C12_NoShares ==
    [][ (IsBarStep /\ ~in_position /\ Eligible(variant, bar')
           /\ cash \div bar'.close = 0) =>
          /\ ~in_position' /\ cash' = cash /\ shares' = 0
          /\ trades' = trades /\ trade_details' = trade_details
          /\ current_trade' = current_trade /\ entry_date' = entry_date
          /\ breakdown_candle_low' = None
          /\ ~ev'.bought /\ ~ev'.marked /\ ~ev'.sold
          /\ pc' = "loop" /\ result' = None ]_vars

\* C12 witness: FLAT after a bar that met the entry conditions and cost more
\* than the cash at hand.
C12_Witness ==
    /\ pc = "loop" /\ i > 0 /\ ~in_position /\ ~ev.sold
    /\ Eligible(variant, bar) /\ cash < bar.close /\ entry_price = bar.close

\* C13: a bar without a Low is dropped before the replay, so the marker is
\* never taken from a bar whose Low is missing.
C13_MarkerHasLow == ~IsNaN(breakdown_candle_low)

\* C14: a frame shorter than the minimum (40 rows in the WMA scripts, 200 in
\* the long-EMA script) returns zero trades, zero profit and an empty list
\* without replaying a row, and only such a frame takes that way out.
C14_ShortSeries ==
    LET minimum == IF variant \in WmaVariants THEN 40 ELSE 200
    IN  /\ length < minimum =>
              /\ i = 0 /\ row = None /\ trades = 0 /\ cash = capital
              /\ ~ev.bought /\ ~ev.marked /\ ~ev.sold /\ ~ev.final
              /\ pc = "done" =>
                    /\ ev.short
                    /\ result.Trades = 0 /\ result.TotalProfit = 0
                    /\ result.TradeDetails = <<>>
        /\ length >= minimum => ~ev.short

\* C14 witness: a frame of 39 rows has returned from a WMA script.
C14_Witness ==
    /\ pc = "done" /\ ev.short /\ variant \in WmaVariants /\ length = 39
    /\ result.Trades = 0 /\ i = 0

\* C18: the marker is unset whenever the state is FLAT, in every variant:
\* initially, after every exit and at every entry.
C18_FlatUnset == ~in_position => breakdown_candle_low = None

\* C18 inside the loop: between bars the marker is unset whenever FLAT.
C18_FlatUnsetInLoop ==
    (pc = "loop" /\ ~in_position) => breakdown_candle_low = None

\* C19: the replay starts at the first row at which every indicator the
\* variant consumes is defined (row 30 in the WMA scripts, row 0 in the
\* long-EMA script) and reads every row from there on: no row before it is
\* acted on and none from it on is skipped as warm-up.
C19_FromFirstDefined ==
    row # None =>
        /\ row >= FirstDefined(variant)
        /\ row - (i - 1) = FirstDefined(variant)

\* C19 for the WMA scripts alone: the loop starts at row 30, the first row
\* with WMA, slope and EMA9, and goes on row by row.
C19_WmaFromFirstDefined ==
    (variant \in WmaVariants /\ row # None) =>
        /\ row - (i - 1) = 30
        /\ FirstDefined(variant) = 30

\* C20: a run in which no replayed bar meets the entry conditions returns
\* zero trades, zero total profit and an empty trade list, and ends with the
\* cash it started with.
C20_NoEntry ==
    (pc = "done" /\ ~eligible) =>
        /\ result.Trades = 0
        /\ result.TotalProfit = 0
        /\ result.TradeDetails = <<>>
        /\ trades = 0 /\ trade_details = <<>>
        /\ cash = capital

\* C20 witness: a run of two or more bars, none of them meeting the entry
\* conditions, has returned.
C20_Witness ==
    /\ pc = "done" /\ ~eligible /\ i >= 2 /\ ~IsNaN(bar.close)
    /\ result.Trades = 0

\* every call of the batch has returned
AllDone == \A n \in DOMAIN jobs : jobs[n].pc = "done"

\* the locals after the loop of script s has replayed rows k.. of a frame
RECURSIVE Replay(_, _, _, _)
Replay(s, L, rows, k) ==
    IF k > Len(rows) THEN L
    ELSE Replay(s, Step(s, L, rows[k], k), rows, k + 1)

\* the dict that one call of script s returns for ticker t and download f in
\* a freshly loaded module, nothing else running
Detect(s, t, f) ==
    IF ~f.ok THEN ErrorRecord(s, t)
    ELSE LET L == Replay(s, FreshLocals(s, FALSE), f.rows, 1)
         IN  Record(s, t, Final(s, L, f.rows[Len(f.rows)], Len(f.rows)))

\* C15: a call that fails does not stop the batch: it contributes a dict with
\* zero trades and zero profit, the calls for the later tickers are still
\* made, and results ends with one dict for each entry of the ticker list.
C15_BatchSurvives ==
    /\ Len(results) = Cardinality({n \in DOMAIN jobs : jobs[n].pc = "done"})
    /\ \A n \in DOMAIN jobs :
         (jobs[n].pc = "done" /\ ~frames[tickers[n]].ok) =>
             /\ jobs[n].out.Trades = 0 /\ jobs[n].out.TotalProfit = 0
             /\ jobs[n].out.TradeDetails = <<>>
             /\ \E r \in 1..Len(results) : results[r] = jobs[n].out
    /\ ~AllDone => ENABLED BatchNext
    /\ AllDone =>
         \A t \in Tickers :
             Cardinality({r \in 1..Len(results) : results[r].Ticker = t})
                 = Cardinality({n \in DOMAIN tickers : tickers[n] = t})

\* C15 witness: the batch is over, the call for the first ticker failed and
\* the call for the second one traded.
C15_Witness ==
    /\ tickers # <<>> /\ AllDone
    /\ ~frames[tickers[1]].ok /\ frames[tickers[2]].ok
    /\ Len(results) = 2 /\ results[2].Trades > 0

\* C16: two calls for the same ticker, series and capital, made one after the
\* other in the same process, return identical dicts; nothing the first call
\* leaves in position_status or trade_log changes what the second returns.
C16_Idempotent ==
    (tickers # <<>> /\ harness = "loop" /\ AllDone /\ tickers[1] = tickers[2]) =>
        /\ results[1] = results[2]
        /\ results[2] = Detect(script, tickers[2], frames[tickers[2]])

\* C16 witness: Trading_Script4 has been run twice on a frame on which it
\* trades at a loss or a gain.
C16_Witness ==
    /\ tickers # <<>> /\ harness = "loop" /\ AllDone /\ script = "S4"
    /\ tickers[1] = tickers[2]
    /\ results[2].Trades > 0 /\ results[2].TotalProfit # 0

\* C17: the dict returned for each entry of the ticker list is the dict its
\* call returns when run alone, in whatever order or interleaving the calls
\* of the batch are made, a ticker listed twice included.
C17_Independent ==
    \A n \in DOMAIN jobs :
        jobs[n].pc = "done" =>
            jobs[n].out = Detect(script, tickers[n], frames[tickers[n]])

\* C17 where it holds: calls made one after the other, calls for different
\* tickers, and calls of momemtum_ipdated return what they return alone.
C17_IndependentApart ==
    (tickers # <<>>
       /\ (harness = "loop" \/ script = "MI" \/ tickers[1] # tickers[2])) =>
        C17_Independent

\* C21: the first trade of a run buys floor(capital / close) shares at the
\* close of the entry bar, and the profit recorded with every trade is
\* (exit close - entry close) * shares, shares being the quantity bought at
\* the entry of that trade.
C21_FirstTradeAndProfit ==
    [][ /\ (IsBarStep /\ ev'.bought /\ trades = 0) =>
              /\ entry_price' = bar'.close
              /\ SharesOnBar = capital \div bar'.close
              /\ ~ev'.sold =>
                    /\ shares' = capital \div bar'.close
                    /\ cash' = capital - shares' * bar'.close
        /\ (variant \in ListVariants
              /\ Len(trade_details') = Len(trade_details) + 1) =>
              LET t == trade_details'[Len(trade_details')]
              IN  /\ trades' = trades + 1
                  /\ t.EntryPrice = entry_price'
                  /\ t.ExitPrice = bar'.close
                  /\ t.Profit =
                        Mul(Sub(t.ExitPrice, t.EntryPrice), SharesSold)
                  /\ SharesSold = cash_before_entry' \div t.EntryPrice
                  /\ SubSeq(trade_details', 1, Len(trade_details))
                        = trade_details
        /\ Len(trade_details') \in
              {Len(trade_details), Len(trade_details) + 1} ]_vars

\* C21 witness: the first trade of a run of Trading_Script1 has been closed
\* by the breakdown exit of a later bar at another price than it was bought.
C21_Witness ==
    /\ variant = "S1" /\ pc = "loop" /\ ev.sold /\ ~ev.bought
    /\ trades = 1 /\ Len(trade_details) = 1
    /\ trade_details[1].Profit # 0 /\ ~IsNaN(trade_details[1].Profit)
    /\ cash - capital = trade_details[1].Profit

\* C22: in every script that reports a CAGR, a call whose index spans no
\* positive time (years <= 0) returns its own trades and total profit with a
\* CAGR of 0; it does not end in the except branch.
C22_ZeroCagr ==
    \A n \in 1..Len(results) :
        (jobs[n].status = "totals" /\ jobs[n].days <= 0) =>
            results[n] = RankRecord(script, tickers[n], jobs[n].cash, 0)

\* the same of Trading_Script4, which tests years > 0
C22_ZeroCagrScript4 ==
    script = "S4" => C22_ZeroCagr

C22_Script4Witness ==
    /\ script = "S4"
    /\ Len(results) = 3
    /\ jobs[1].status = "totals" /\ jobs[1].days < 0 /\ jobs[1].cash = 2560
    /\ jobs[2].status = "totals" /\ jobs[2].days = 0 /\ jobs[2].cash = 10
    /\ results[1].CAGR = 0 /\ results[1].Trades = 1
    /\ results[2].CAGR = 0 /\ results[2].Trades = 1

\* C24: once the trade list is saved, df_result holds the dicts of results in
\* descending order of CAGR, the dicts of too short and failed calls among
\* them with a CAGR of 0, and no dict of results has a CAGR above that of
\* the dict whose trade list is saved.
C24_TopIsMaximal ==
    top_stock # "" =>
        /\ Len(df_result) = Len(results)
        /\ \A n \in 1..Len(results) :
             Cardinality({m \in 1..Len(results) : df_result[m] = results[n]})
               = Cardinality({m \in 1..Len(results) : results[m] = results[n]})
        /\ \A a, b \in 1..Len(df_result) :
             a < b => ~Gt(df_result[b].CAGR, df_result[a].CAGR)
        /\ \A n \in 1..Len(results) :
             jobs[n].status # "totals" => results[n] = RankZero(tickers[n])
        /\ \A n \in 1..Len(results) :
             ~Gt(results[n].CAGR, top_stock_details.CAGR)

\* the same of the ticker lists that name no ticker twice
C24_TopIsMaximalUnique ==
    (\A a, b \in 1..Len(tickers) : tickers[a] = tickers[b] => a = b) =>
        C24_TopIsMaximal

C24_UniqueWitness ==
    /\ top_stock = "C"
    /\ tickers = <<"A", "B", "C">>
    /\ jobs[1].status = "raised"
    /\ results[2].CAGR < 0
    /\ results[3].CAGR > 0
    /\ top_stock_details = results[3]
    /\ df_result = <<results[3], results[1], results[2]>>

\* the call has returned a dict to its caller (the body of each function is
\* one try whose except branch returns a dict as well)
Returned == pc = "done"

\* C23: a call with a capital that is not positive does not return a result:
\* it raises.
C23_BadCapitalRaises ==
    capital <= 0 => ~Returned

\* C25: in Trading_Script1 every pass over a bar that is evaluated (not
\* skipped as inert) appends one entry to the portfolio timeline, no other
\* step touches the timeline, the date of the entry is that of the bar and
\* lies after the date of the entry before it, and its value is the cash
\* when no position is open after the bar and cash + shares * close when one
\* is.
C25_Timeline ==
    [][ /\ (IsBarStep /\ variant = "S1" /\ ~Inert(variant, bar')) =>
              /\ portfolio_timeline'.Len = portfolio_timeline.Len + 1
              /\ portfolio_timeline'.Last.Date = row'
              /\ portfolio_timeline.Len > 0 =>
                    portfolio_timeline'.Last.Date > portfolio_timeline.Last.Date
              /\ portfolio_timeline'.Last.Value =
                    IF in_position' THEN cash' + shares' * bar'.close ELSE cash'
        /\ ~(IsBarStep /\ variant = "S1" /\ ~Inert(variant, bar')) =>
              portfolio_timeline' = portfolio_timeline ]_vars

C25_Witness ==
    /\ variant = "S1"
    /\ pc = "loop"
    /\ i = 3
    /\ portfolio_timeline.Len = 2
    /\ in_position
    /\ shares > 0
    /\ cash > 0
    /\ portfolio_timeline.Last.Date = row
    /\ portfolio_timeline.Last.Value = cash + shares * bar.close

\* the messages of kind k among those sent by the step
SentNow(k) ==
    Cardinality({n \in (Len(sent) + 1)..Len(sent') : sent'[n] = k})

\* C26: in the scripts that send Telegram messages, the step that opens a
\* position sends exactly one BUY, the step that closes one (breakdown exit
\* or end-of-series sale) sends exactly one SELL, no other message is sent,
\* and so, when the run has returned, every BUY is followed by a SELL.
C26_Notified ==
    [][ variant # "S1" =>
          /\ SentNow("BUY") = IF IsBarStep /\ ev'.bought THEN 1 ELSE 0
          /\ SentNow("SELL") =
                IF (IsBarStep /\ ev'.sold) \/ (IsFinishStep /\ ev'.final)
                THEN 1 ELSE 0
          /\ Len(sent') = Len(sent) + SentNow("BUY") + SentNow("SELL")
          /\ pc' = "done" =>
                \A n \in 1..Len(sent') :
                    sent'[n] = "BUY" =>
                        n < Len(sent') /\ sent'[n + 1] = "SELL" ]_vars

\* what the scripts do: one BUY for every position opened, and a SELL only
\* for a position closed at a profit, never at the end of the series of
\* momemtum_script
C26_NotifiedAtProfit ==
    [][ variant # "S1" =>
          /\ SentNow("BUY") = IF IsBarStep /\ ev'.bought THEN 1 ELSE 0
          /\ SentNow("SELL") =
                IF \/ IsBarStep /\ ev'.sold /\ wins' = wins + 1
                   \/ IsFinishStep /\ ev'.final /\ wins' = wins + 1
                                   /\ variant = "S3"
                THEN 1 ELSE 0
          /\ Len(sent') = Len(sent) + SentNow("BUY") + SentNow("SELL") ]_vars

C26_ProfitWitness ==
    /\ variant = "MS"
    /\ pc = "done"
    /\ trades = 2
    /\ wins = 1
    /\ sent = <<"BUY", "SELL", "BUY">>

\* the rows that the call of check_breakdown scanned
Scanned == Clean(script, df)

\* the previous close is above the EMA9 of the previous row and the close of
\* row n is below the EMA9 of row n
CrossedAsStated(n) ==
    /\ n >= 2
    /\ AboveEma(script, Scanned[n - 1].Close, Scanned, n - 1)
    /\ BelowEma(script, Scanned[n].Close, Scanned, n)

\* C28: check_breakdown (of a frame of at least 10 rows) reports a breakdown
\* exactly when some row closes below its EMA9 after a row that closed above
\* its EMA9, and the candle it returns is the first such row.
C28_Crossover ==
    (breakdown # NoBreakdown(<<>>) /\ Len(df) >= MinRows) =>
        /\ breakdown.found <=> \E n \in 1..Len(Scanned) : CrossedAsStated(n)
        /\ breakdown.found =>
              /\ CrossedAsStated(breakdown.at)
              /\ \A m \in 1..(breakdown.at - 1) : ~CrossedAsStated(m)

\* the same of the workflow copy, which tests > and < against the EMA9 of
\* the previous row
C28_CrossoverWorkflow ==
    script = "WF" => C28_Crossover

C28_WorkflowWitness ==
    /\ script = "WF"
    /\ step = "checked"
    /\ breakdown.found
    /\ breakdown.at = MinRows - 1
    /\ df[2].Close = df[1].Close
    /\ df[MinRows].Close = 7

\* C29: process_stock sets 'Exit Triggered' to 'Yes' and hands a message to
\* Telegram exactly when check_breakdown found a candle and the latest close
\* is below the low of that candle; 'Alert Sent' is 'Yes' exactly when that
\* send succeeded; a frame that is empty or has fewer than 10 rows leaves the
\* record as it was created and nothing is sent.
C29_ExitRecord ==
    step = "processed" =>
        LET due == /\ breakdown.found
                   /\ breakdown.df[Len(breakdown.df)].Close
                        < breakdown.df[breakdown.at].Low
        IN  /\ record.ExitTriggered = "Yes" <=> due
            /\ Len(sent) = IF due THEN 1 ELSE 0
            /\ record.AlertSent = "Yes" <=> (due /\ sent[1].Ok)
            /\ record.ExitTriggered \in {"Yes", "No"}
            /\ record.AlertSent \in {"Yes", "No"}
            /\ due => /\ record.CandleLow = breakdown.df[breakdown.at].Low
                      /\ record.CurrentClose
                           = breakdown.df[Len(breakdown.df)].Close
            /\ Len(df) < MinRows => record = NoRecord /\ sent = <<>>

C29_Witness ==
    /\ step = "processed"
    /\ Len(df) = MinRows
    /\ df[2].Close > df[1].Close
    /\ breakdown.found
    /\ breakdown.at > 2
    /\ record.ExitTriggered = "Yes"
    /\ record.AlertSent = "No"
    /\ record.CurrentClose < record.CandleLow
    /\ sent = <<[Ticker |-> "A", Ok |-> FALSE]>>

\* C27: no stock is named by two of the exit alerts handed to Telegram in one
\* execution, whatever the number of calls of monitor_stocks
C27_OneAlertPerStock ==
    script \in MonitorScripts =>
        \A m, n \in 1..Len(sent) : sent[m].Ticker = sent[n].Ticker => m = n

\* the pass of 9ema_exit_signal_alert.py is over, with an alert for the
\* first stock and a later stock that met the exit condition as well
C27_Witness ==
    /\ script = "EA"
    /\ step.pc = "ended"
    /\ Len(results) = 3
    /\ Len(sent) = 2
    /\ sent[1].Ticker = "A"
    /\ results[3].ExitTriggered = "Yes"

\* the workflow copy is in its second call of monitor_stocks and has not
\* raised: no stock met the exit condition so far
C27_SecondCycle ==
    /\ script = "WF"
    /\ cycle = 2
    /\ step = [pc |-> "scan", k |-> 1]
    /\ sent = <<>>


\* the closes of the frame rise by the same positive amount from each bar
\* to the next
Linear ==
    /\ Len(df) >= 2
    /\ df[2].Close > df[1].Close
    /\ \A r \in 2..Len(df) : df[r].Close - df[r - 1].Close = df[2].Close - df[1].Close

\* WMA is NaN at every bar before WmaWindow - 1 and WMA_Slope at every bar
\* before WmaWindow
UndefinedBefore ==
    /\ \A r \in 1..Len(df) : r - 1 < FirstWma => df[r].WMA = NaNF
    /\ \A r \in 1..Len(df) : r - 1 < FirstSlope => df[r].WMA_Slope = NaNF

\* the float64 x is greater than 0
Positive(x) == x.int > 0 \/ (x.int = 0 /\ \E k \in 1..Len(x.frac) : x.frac[k] = 1)

\* the float64 x is within 2^-40 of the integer b
Near(x, b) ==
    \/ x.int = b /\ \A k \in 1..40 : x.frac[k] = 0
    \/ x.int = b - 1 /\ \A k \in 1..40 : x.frac[k] = 1

\* C30: once compute_wma_and_slope has run on a strictly linearly increasing
\* close series, WMA is NaN at every bar before WmaWindow - 1, WMA_Slope is
\* NaN at every bar before WmaWindow, and WMA_Slope has one value, greater
\* than 0, at all the bars where it is a number
C30_LinearSlope ==
    (step = "computed" /\ Linear) =>
        /\ UndefinedBefore
        /\ \A r, q \in 1..Len(df) :
             (df[r].WMA_Slope # NaNF /\ df[q].WMA_Slope # NaNF) =>
                 /\ df[r].WMA_Slope = df[q].WMA_Slope
                 /\ Positive(df[r].WMA_Slope)

\* C30, as the code has it: on such a series WMA and WMA_Slope are NaN
\* before those bars, and every WMA_Slope that is a number is greater than 0
\* and within 2^-40 of the difference between two closes
C30_LinearSlopeRounded ==
    (step = "computed" /\ Linear) =>
        /\ UndefinedBefore
        /\ \A r \in 1..Len(df) :
             df[r].WMA_Slope # NaNF =>
                 /\ Positive(df[r].WMA_Slope)
                 /\ Near(df[r].WMA_Slope, df[2].Close - df[1].Close)

\* a linear series of 33 bars has been computed whose WMA passes 32 between
\* bars 31 and 32: the slope is a number at bars 30, 31 and 32, it is the
\* difference of the closes at bar 31 and is not at bar 32
C30_Witness ==
    /\ step = "computed"
    /\ Linear
    /\ Len(df) = 33
    /\ df[FirstWma + 1].WMA # NaNF
    /\ df[32].WMA.int = 31
    /\ df[33].WMA.int = 32
    /\ df[32].WMA_Slope = [int |-> 1, frac |-> [k \in 1..Mantissa |-> 0]]
    /\ df[33].WMA_Slope # df[32].WMA_Slope

\* the slopes are near one value whether or not the closes are linear
C30_AnySeries ==
    step = "computed" =>
        \A r \in 1..Len(df) :
            df[r].WMA_Slope # NaNF =>
                Near(df[r].WMA_Slope, df[2].Close - df[1].Close)


\* every close of the frame is the first close
ConstantCloses == \A n \in 1..Len(df) : df[n].Close = df[1].Close

\* the columns that the script adds hold the close of row n
EmasAreClose(n) ==
    \A e \in {df[n].EMA9, df[n].EMA20, df[n].EMA50, df[n].EMA200} :
        e # NoEma => e.num = df[n].Close * e.den

\* C31: once the EMA columns have been added to a frame whose closes are all
\* the same, every EMA of every row equals the close
C31_ConstantEma ==
    (script \in EwmScripts /\ step = "computed" /\ ConstantCloses) =>
        \A n \in 1..Len(df) : EmasAreClose(n)

\* the four columns of momemtum_script.py have been added to a constant
\* frame of three rows, and the last 200EMA is the close
C31_Witness ==
    /\ script = "MS"
    /\ step = "computed"
    /\ ConstantCloses
    /\ Len(df) = 3
    /\ df[3].EMA200 # NoEma
    /\ df[3].EMA200.num = df[3].Close * df[3].EMA200.den

\* the columns hold the close whether or not the closes are all the same
C31_AnySeries ==
    (script \in EwmScripts /\ step = "computed") =>
        \A n \in 1..Len(df) : EmasAreClose(n)


\* the call for entry n holds shares exactly when it is in a position
SharesIffPosition(n) ==
    jobs[n].pc = "run" => (jobs[n].L.in_position <=> jobs[n].L.shares > 0)

\* C32: while a call of detect_weinstein_signals of Trading_Script4 runs,
\* shares > 0 exactly when in_position, whatever position_status held for
\* the ticker when the call was made
C32_SharesIffPosition ==
    script = "S4" => \A n \in DOMAIN jobs : SharesIffPosition(n)

\* C32 for the calls that the loop of Trading_Script4 makes with its own
\* position_status, which is False for every ticker
C32_SharesIffPositionOwn ==
    (script = "S4" /\ harness = "loop") =>
        \A n \in DOMAIN jobs : SharesIffPosition(n)

\* a call of the loop of Trading_Script4 is in a position with shares > 0
C32_OwnWitness ==
    /\ script = "S4"
    /\ harness = "loop"
    /\ \E n \in DOMAIN jobs :
         /\ jobs[n].pc = "run"
         /\ jobs[n].L.in_position
         /\ jobs[n].L.shares > 0

\* C32, the trades: a call that has bought nothing has counted no trade
C32_NoTradeWithoutShares ==
    script = "S4" =>
        \A n \in DOMAIN jobs :
            (jobs[n].pc = "done" /\ jobs[n].L.cash_before_entry = None) =>
                jobs[n].out.Trades = 0

\* the calls that return in this step leave position_status False for
\* their ticker
ReturnsWithFlagFalse ==
    \A n \in DOMAIN jobs :
        (jobs[n].pc # "done" /\ jobs'[n].pc = "done") =>
            ~position_status'[tickers[n]]

\* C33: when a call of detect_weinstein_signals of Trading_Script4 returns
\* for a ticker, by its return statements or from its except branch,
\* position_status is False for that ticker
C33_FlagFalseAtReturn ==
    [][script = "S4" => ReturnsWithFlagFalse]_vars

\* C33 for the calls that the loop of Trading_Script4 makes with its own
\* position_status
C33_FlagFalseAtReturnOwn ==
    [][(script = "S4" /\ harness = "loop") => ReturnsWithFlagFalse]_vars

\* a call of the loop of Trading_Script4 has bought, has sold in its final
\* block and has returned
C33_OwnWitness ==
    /\ script = "S4"
    /\ harness = "loop"
    /\ \E n \in DOMAIN jobs :
         /\ jobs[n].pc = "done"
         /\ jobs[n].out.Trades = 1
         /\ jobs[n].L.cash_before_entry # None
         /\ ~position_status[tickers[n]]


\* the low of row b is a number that is not above its close
LowNotAboveClose(b) == ~IsNaN(b.low) /\ ~IsNaN(b.close) /\ b.low <= b.close

\* a pass of the loop whose row has low <= close and which sells: the
\* position was not bought in this pass, and its entry date is before the
\* date of the row
ExitAfterEntry ==
    (pc = "loop" /\ pc' = "loop" /\ ev'.sold /\ LowNotAboveClose(bar')) =>
        /\ ~ev'.bought
        /\ in_position
        /\ variant \in ListVariants => entry_date < i'

\* the block after the loop sells a position whose entry date is not after
\* the last row, and at a profit of 0 when it was bought on the last row
FinalExitAtEntry ==
    (pc = "loop" /\ pc' = "done" /\ ev'.final /\ variant \in ListVariants) =>
        /\ entry_date <= i
        /\ entry_date = i =>
             /\ Profit(Locals, bar.close) = 0
             /\ realized' = realized

\* C34: on a row with low <= close no position is bought and sold by the
\* breakdown exit, so that the exit date of such a trade is after its entry
\* date; the sale after the loop alone can have the date of the entry, and
\* its profit is then 0
C34_ExitAfterEntry == [][ExitAfterEntry /\ FinalExitAtEntry]_vars

\* Trading_Script1 has sold by the breakdown exit, on a row with low <= close,
\* a position bought on an earlier row
C34_Witness ==
    /\ variant = "S1"
    /\ pc = "loop"
    /\ ev.sold
    /\ ~ev.bought
    /\ LowNotAboveClose(bar)
    /\ Len(trade_details) >= 1
    /\ trade_details[Len(trade_details)].ExitDate = i
    /\ trade_details[Len(trade_details)].EntryDate < i

\* the same without the premise on the low: no pass buys and sells
C34_AnyLow == [][(pc = "loop" /\ pc' = "loop" /\ ev'.sold) => ~ev'.bought]_vars

\* the position that the buy block opens on row b leaves a cash that is not
\* negative and is less than the entry price
EntryLeavesLess ==
    (pc = "loop" /\ pc' = "loop" /\ ev'.bought) =>
        LET L == Buy(variant, Locals, bar', i')
        IN  /\ L.in_position
            /\ L.cash >= 0
            /\ L.cash < L.entry_price
            /\ L.cash = cash - L.shares * L.entry_price
            /\ cash_before_entry' = cash

\* in the replays, whose money is whole: with a capital that is not
\* negative, cash is never negative, and the cash left by an entry is less
\* than the entry price
C35_CashNotNegativeWhole ==
    [](capital >= 0 => (IsNaN(cash) \/ cash >= 0))
    /\ [][capital >= 0 => EntryLeavesLess]_vars

\* a position has just been bought with cash to spare: the cash left is
\* positive and less than the entry price
C35_WholeWitness ==
    /\ pc = "loop"
    /\ ev.bought
    /\ in_position
    /\ cash > 0
    /\ cash < entry_price
    /\ cash = cash_before_entry - shares * entry_price

\* the position is the largest whole number of shares that the cash before
\* the entry can buy
LargestPosition ==
    LET paid == Times(shares, entry_price)
        more == Times(shares + 1, entry_price)
    IN  /\ paid.int < capital \/ paid = Float(capital)
        /\ more.int >= capital /\ more # Float(capital)

\* x is less than y, or passes it by less than 2^-20
HardlyAbove(x, y) ==
    LET d == Float64Sub(x, y)
    IN  \/ d.int < 0
        \/ d.int = 0 /\ \A j \in 1..20 : d.frac[j] = 0

\* C35: with cash and prices in float64, the cash left by an entry is not
\* negative, the position is the largest whole number of shares the cash
\* can buy, and the cash left is less than the entry price or passes it by
\* the rounding of shares * entry_price only
C35_EntryRounded ==
    (i = 1 /\ in_position) =>
        /\ cash.int >= 0
        /\ shares > 0
        /\ LargestPosition
        /\ HardlyAbove(cash, entry_price)

\* C35 as stated: the cash left by an entry is not negative and strictly
\* less than the entry price
C35_EntryLeavesLess ==
    (i = 1 /\ in_position) =>
        /\ cash.int >= 0
        /\ FloatLess(cash, entry_price)

\* C35 witness: 100000 has bought 6 shares at the float64 nearest to
\* 100000 / 7, and the cash left is not below that price
C35_RoundedWitness ==
    /\ i = 1
    /\ in_position
    /\ capital = 100000
    /\ shares = 6
    /\ entry_price = Float64Div(100000, 7)
    /\ LargestPosition
    /\ ~FloatLess(cash, entry_price)

\* each trade of the list is entered after the exit of the trade before it
ListInOrder ==
    variant \in ListVariants =>
        \A k \in 1..(Len(trade_details) - 1) :
            /\ trade_details[k].EntryDate <= trade_details[k].ExitDate
            /\ trade_details[k].ExitDate < trade_details[k + 1].EntryDate

\* a pass that sells the position held at its start does not buy
NoReopen ==
    (pc = "loop" /\ pc' = "loop" /\ in_position /\ ev'.sold) =>
        /\ ~in_position'
        /\ ~ev'.bought

\* C37: no position is opened on the row on which the one before it was
\* closed, and in trade_details every trade is entered after the exit of the
\* trade before it
C37_Sequential == []ListInOrder /\ [][NoReopen]_vars

\* Trading_Script1 has closed two positions, the second bought after the
\* first was sold
C37_Witness ==
    /\ variant = "S1"
    /\ Len(trade_details) = 2
    /\ trade_details[1].ExitDate < trade_details[2].EntryDate
    /\ trade_details[2].EntryDate <= trade_details[2].ExitDate

\* C36: in a frame whose closes and moving averages are not negative, no
\* script reaches the floor division with a close of zero: the pass over a
\* row of it never raises
NotNegative(b) ==
    \A f \in {"close", "low", "wma", "ema9", "ema200", "ema50", "ema20"} :
        b[f] \in {NaN, None} \/ b[f] >= 0

C36_NoZeroDivision ==
    [][(i' = i + 1 /\ NotNegative(bar'))
         => (pc' = "loop"
               /\ ~(Divides(variant, Locals, bar') /\ bar'.close = 0))]_vars

\* C36 witness: a row with a close of zero and averages of zero was read with
\* no position open and a rising slope, and the loop goes on
C36_Witness ==
    /\ pc = "loop" /\ i > 0
    /\ bar.close = 0 /\ NotNegative(bar)
    /\ ~in_position /\ cash = capital
    /\ variant \in WmaVariants => Gt(bar.slope, 0)

\* C36 without the premise on the averages: violated, a negative average lets
\* a close of zero through the entry tests
C36_AnyAverage ==
    [][(i' = i + 1 /\ bar'.close # NaN /\ bar'.close >= 0)
         => pc' = "loop"]_vars

\* the entries of trade_log for ticker t, in the order of the list
TickerLog(t) == SelectSeq(trade_log, LAMBDA e : e.Ticker = t)

\* BUY and SELL take turns from a BUY on, each SELL with the shares of the
\* BUY before it
Alternates(log) ==
    \A k \in 1..Len(log) :
        IF k % 2 = 1 THEN log[k].Action = "BUY"
        ELSE /\ log[k].Action = "SELL"
             /\ log[k].Shares = log[k - 1].Shares

\* every call for ticker t has returned, and there is one
Completed(t) ==
    /\ \E n \in DOMAIN jobs : tickers[n] = t
    /\ \A n \in DOMAIN jobs : tickers[n] = t => jobs[n].pc = "done"

\* the sum of Trades over the dicts returned by the first n calls for t
RECURSIVE TradesOf(_, _)
TradesOf(t, n) ==
    IF n = 0 THEN 0
    ELSE TradesOf(t, n - 1)
           + (IF tickers[n] = t /\ jobs[n].pc = "done"
              THEN jobs[n].out.Trades ELSE 0)

LogMatches ==
    \A t \in Tickers :
        /\ Alternates(TickerLog(t))
        /\ Completed(t) =>
             /\ Len(TickerLog(t)) % 2 = 0
             /\ Len(TickerLog(t)) \div 2 = TradesOf(t, Len(tickers))
        /\ \A n \in DOMAIN jobs :
             (tickers[n] = t /\ jobs[n].pc = "done" /\ ~frames[t].ok)
               => /\ jobs[n].out.Trades = 0
                  /\ Len(TickerLog(t)) % 2 = 0

\* C38: in momemtum_ipdated the entries of trade_log of a ticker alternate
\* BUY, SELL from a BUY on, each SELL with the shares of its BUY; when the
\* calls for the ticker have returned the last entry is a SELL and the SELLs
\* are as many as the Trades of the returned dicts; a call that ends in the
\* except branch returns Trades 0 and leaves no BUY without its SELL
C38_LogMatches == script = "MI" => LogMatches

\* C38 on frames in which every close is a number: holds
C38_LogMatchesOwn ==
    (script = "MI" /\ harness = "loop") => LogMatches

\* a call of momemtum_ipdated has bought, sold and returned one trade, with
\* the two entries in trade_log
C38_OwnWitness ==
    /\ script = "MI"
    /\ harness = "loop"
    /\ \E t \in Tickers :
         /\ Completed(t)
         /\ Len(TickerLog(t)) = 2
         /\ TickerLog(t)[2].Action = "SELL"
         /\ TickerLog(t)[2].Shares = TickerLog(t)[1].Shares
         /\ TickerLog(t)[2].Shares > 0
         /\ TradesOf(t, Len(tickers)) = 1

\* a step changes the locals of one thread at most
OneThreadMoves ==
    \A n \in DOMAIN threads : \A m \in DOMAIN threads :
        (n # m /\ threads'[n] # threads[n]) => threads'[m] = threads[m]

\* the signals posted for ticker t, in the order of the posts
Posted(t) == SelectSeq(sent, LAMBDA e : e.Ticker = t)

\* BUY and SELL take turns from a BUY on
TakeTurns(log) ==
    \A k \in 1..Len(log) :
        log[k].Action = (IF k % 2 = 1 THEN "BUY" ELSE "SELL")

\* the flag of a thread changes only in the step in which its notification
\* call returns; the step in which the call raises leaves it as it was
FlipsAfterReturn ==
    \A n \in DOMAIN threads :
        /\ threads'[n].in_position # threads[n].in_position
             => /\ threads[n].pc = "send"
                /\ threads'[n].error = threads[n].error
        /\ (threads[n].pc = "send" /\ threads'[n].error = "NameError")
             => threads'[n].in_position = threads[n].in_position

\* C39: in the threaded live monitor each thread has its own in_position and
\* a step of one thread leaves the locals of the others alone; the signals
\* posted for a ticker alternate BUY, SELL from a BUY on under every
\* interleaving; the flag is changed only after the notification call has
\* returned, and a call that raises leaves it unchanged for the next cycle
C39_OwnFlags ==
    /\ [](\A n \in DOMAIN threads : TakeTurns(Posted(threads[n].ticker)))
    /\ [][OneThreadMoves /\ FlipsAfterReturn]_vars

\* C39 witness: the notification of one thread has raised and the thread is
\* in its next cycle with the flag as it was, testing a row that asks for the
\* same signal again, while the other thread is inside its own call
C39_Witness ==
    \E n \in DOMAIN threads : \E m \in DOMAIN threads :
        /\ n # m
        /\ threads[n].error = "NameError"
        /\ threads[n].k = 1
        /\ threads[n].pc = "generate"
        /\ ~threads[n].in_position
        /\ Signal(threads[n]) = "BUY"
        /\ threads[m].pc = "send"

====
